---- MODULE Spec2Model ----
(***************************************************************************)
(* A model of xdas' pipeline composition (xdas/compose.py): Atom,          *)
(* StateAtom, Sequence and the state-carrying calling convention.          *)
(*                                                                         *)
(* Python values are records [t, v]: t is the kind of the value and v its  *)
(* content.  Data (the array a pipeline processes) is a sequence of        *)
(* samples in 0..MaxVal along the chunked axis; arithmetic is modulo Mod.  *)
(* A dict is a sequence of [key, value] items in insertion order.          *)
(***************************************************************************)
EXTENDS Integers, Sequences, FiniteSets, TLC

VARIABLES
    ctor,       \* the construction (func, args, state, kwargs) of A and B
    atomA,      \* the persistent StateAtom A
    atomB,      \* B, a distinct StateAtom of identical construction
    ins,        \* the chunks A processed since construction or reset, joined
    outs,       \* the outputs A returned for them, joined
    last,       \* the last operation on A
    prev,       \* the operation on A before the last one
    wasReset,   \* whether A was ever reset
    renewed,    \* what a StateAtom constructed for A's last chunk alone did with it
    discarded,  \* whether A's last reset discarded a state that applies had changed
    usedB,      \* whether B was ever applied or loaded
    container,  \* what save_state wrote, and whether A has moved since
    rel,        \* how B relates to A: "paired", "none", "rewound", "resumed"
    lastA,      \* what A gave for the last chunk passed to both A and B
    lastB,      \* what B gave for it
    built,      \* the Atom and StateAtom objects as constructed, by identity
    store,      \* the same objects as they are now
    pipeline,   \* the Sequence under test
    fed,        \* the chunks the Sequence processed since construction or reset, joined
    got,        \* the outputs it returned for them, joined
    lastSeq,    \* the last operation on the Sequence
    request,    \* the construction the caller asked for last
    result,     \* what that construction gave
    used,       \* the last call of the Atom that was made
    selection,  \* the Selection after the selections made so far
    eager,      \* the array indexed eagerly with the same keys
    lastSel,    \* the last selection asked of the Selection
    layout,     \* the DataLayout as constructed
    sliced,     \* the DataLayout the successive slicings gave
    linked,     \* what was assigned to the underlying virtual layout
    lastSet,    \* the last operation on a DataLayout
    nSel,       \* how many selections or slicings were asked
    publisher,  \* the ZMQPublisher
    wire,       \* every message the publisher sent, in order
    subscriber, \* the ZMQSubscriber
    inbox,      \* the messages delivered to the subscriber and not yet received
    lastSubmit, \* the last submit of the publisher
    lastNext,   \* the last __next__ of the subscriber
    memory,     \* the Selection objects and their lists of selectors, by reference
    held,       \* the references the caller holds
    lastGet     \* the last __getitem__ of a Selection the caller holds

histVars == <<ins, outs, last, prev, wasReset, renewed>>

twinVars == <<atomB, discarded, usedB, container, rel, lastA, lastB>>

seqVars == <<built, store, pipeline, fed, got, lastSeq>>

buildVars == <<request, result, used>>

selVars == <<selection, eager, lastSel, layout, sliced, linked, lastSet, nSel>>

zmqVars == <<publisher, wire, subscriber, inbox, lastSubmit, lastNext>>

derVars == <<memory, held, lastGet>>

ioVars == <<selVars, zmqVars, derVars>>

vars == <<ctor, atomA, histVars, twinVars, seqVars, buildVars, ioVars>>

----------------------------------------------------------------------------
(* Bounds of the model *)

MaxVal == 1

MaxChunk == 2

MaxLen == 3

Mod == MaxVal + 1

Samples == 0..MaxVal

Min(a, b) == IF a < b THEN a ELSE b

\* The chunks a caller may pass: the non-empty sample sequences up to MaxChunk.
Chunks == UNION {[1..n -> Samples] : n \in 1..MaxChunk}

----------------------------------------------------------------------------
(* Python values *)

\* The string "init", as a state value: every payload is >= 0.
INIT == -1

Ellipsis == [t |-> "ellipsis", v |-> 0]

Num(n) == [t |-> "num", v |-> n]

Data(x) == [t |-> "data", v |-> x]

\* filters.State: a tagged value, Uninitialized or Value(payload).
Uninitialized == [t |-> "Uninitialized", v |-> 0]

Value(p) == [t |-> "Value", v |-> p]

State(value) == IF value = INIT THEN Uninitialized ELSE Value(value)

(* dict *)

Item(k, v) == [key |-> k, value |-> v]

DictKeys(d) == [i \in 1..Len(d) |-> d[i].key]

DictHas(d, k) == \E i \in 1..Len(d) : d[i].key = k

DictGet(d, k) == d[CHOOSE i \in 1..Len(d) : d[i].key = k].value

\* d[k] = v: an existing key keeps its position, a new key goes last.
DictSet(d, k, v) ==
    IF DictHas(d, k)
    THEN [i \in 1..Len(d) |-> IF d[i].key = k THEN Item(k, v) ELSE d[i]]
    ELSE Append(d, Item(k, v))

\* a | b
RECURSIVE DictMerge(_, _)
DictMerge(a, b) ==
    IF b = <<>> THEN a
    ELSE DictMerge(DictSet(a, b[1].key, b[1].value), Tail(b))

\* dict(zip(keys, values)), truncated to the shorter of the two
RECURSIVE DictZip(_, _)
DictZip(keys, values) ==
    IF keys = <<>> \/ values = <<>> THEN <<>>
    ELSE DictMerge(<<Item(keys[1], values[1])>>, DictZip(Tail(keys), Tail(values)))

----------------------------------------------------------------------------
(* The wrapped callables: opaque to the pipeline, concrete here. *)

RECURSIVE SumTo(_, _)
SumTo(x, i) == IF i = 0 THEN 0 ELSE x[i] + SumTo(x, i - 1)

\* the running sum of x, modulo Mod, started at s
RunSum(x, s) == [i \in 1..Len(x) |-> (s + SumTo(x, i)) % Mod]

Returned(value) == [raised |-> FALSE, err |-> "", value |-> value]

Raised(err) == [raised |-> TRUE, err |-> err, value |-> <<>>]

\* The parameter names of each callable, in positional order.
Params(func) ==
    CASE func = "square" -> <<"x">>
      [] func = "scale" -> <<"x", "k">>
      [] func = "add" -> <<"x", "k">>
      [] func = "nonzero" -> <<"x">>
      [] func = "integrate" -> <<"x">>
      [] func = "cumsum" -> <<"x", "zi">>
      [] func = "guarded" -> <<"x", "zi">>
      [] func = "delay2" -> <<"x", "z1", "z2">>
      [] func = "short2" -> <<"x", "z1", "z2">>
      [] func = "long2" -> <<"x", "z1", "z2">>

PosOf(seq, e) == CHOOSE i \in 1..Len(seq) : seq[i] = e

\* Python's binding of a call's arguments to the parameters: no extra positional
\* argument, no unknown keyword, no parameter given twice, none missing.
BindOk(func, args, kwargs) ==
    LET ps == Params(func) IN
    /\ Len(args) <= Len(ps)
    /\ \A i \in 1..Len(kwargs) :
          /\ \E j \in 1..Len(ps) : ps[j] = kwargs[i].key
          /\ PosOf(ps, kwargs[i].key) > Len(args)
    /\ \A j \in 1..Len(ps) : j <= Len(args) \/ DictHas(kwargs, ps[j])

Bound(func, args, kwargs, p) ==
    LET j == PosOf(Params(func), p) IN
    IF j <= Len(args) THEN args[j] ELSE DictGet(kwargs, p)

\* The kinds of value a parameter takes: data for x, a number for k, a State
\* for a state parameter.
Accepts(p) ==
    CASE p = "x" -> {"data"}
      [] p = "k" -> {"num"}
      [] OTHER -> {"Uninitialized", "Value"}

TypesOk(func, args, kwargs) ==
    \A j \in 1..Len(Params(func)) :
        Bound(func, args, kwargs, Params(func)[j]).t \in Accepts(Params(func)[j])

StartOf(state) == IF state.t = "Uninitialized" THEN 0 ELSE state.v

\* out[i] = x[i-2], the two samples before the chunk being z2 then z1;
\* returns the output and the new <<z1, z2>>
Delay2(x, z1, z2) ==
    LET b == <<StartOf(z2), StartOf(z1)>> \o x
        n == Len(x)
    IN  <<[i \in 1..n |-> b[i]], b[n + 2], b[n + 1]>>

\* func(*args, **kwargs)
Call(func, args, kwargs) ==
    IF ~BindOk(func, args, kwargs) THEN Raised("TypeError")
    ELSE IF ~TypesOk(func, args, kwargs) THEN Raised("TypeError")
    ELSE
    LET x == Bound(func, args, kwargs, "x").v IN
    CASE func = "square" ->
            Returned([i \in 1..Len(x) |-> (x[i] * x[i]) % Mod])
      [] func = "scale" ->
            Returned([i \in 1..Len(x) |-> (x[i] * Bound(func, args, kwargs, "k").v) % Mod])
      [] func = "add" ->
            Returned([i \in 1..Len(x) |-> (x[i] + Bound(func, args, kwargs, "k").v) % Mod])
      [] func = "nonzero" ->
            IF \E i \in 1..Len(x) : x[i] = 0 THEN Raised("ValueError")
            ELSE Returned(x)
      [] func = "integrate" ->
            Returned(RunSum(x, 0))
      [] func = "cumsum" ->
            LET s == StartOf(Bound(func, args, kwargs, "zi"))
            IN  Returned(<<RunSum(x, s), (s + SumTo(x, Len(x))) % Mod>>)
      [] func = "guarded" ->
            LET s == StartOf(Bound(func, args, kwargs, "zi"))
            IN  IF \E i \in 1..Len(x) : x[i] = 0 THEN Raised("ValueError")
                ELSE Returned(<<RunSum(x, s), (s + SumTo(x, Len(x))) % Mod>>)
      [] func = "delay2" ->
            Returned(Delay2(x, Bound(func, args, kwargs, "z1"),
                            Bound(func, args, kwargs, "z2")))
      [] func = "short2" ->
            LET r == Delay2(x, Bound(func, args, kwargs, "z1"),
                            Bound(func, args, kwargs, "z2"))
            IN  Returned(<<r[1], r[2]>>)
      [] func = "long2" ->
            LET r == Delay2(x, Bound(func, args, kwargs, "z1"),
                            Bound(func, args, kwargs, "z2"))
            IN  Returned(r \o <<Len(x) % Mod>>)

----------------------------------------------------------------------------
(* filters.Filter and filters.State, the base class of Atom *)

\* Filter.__init__: an object with an empty state dict
FilterInit == [cls |-> "Filter", func |-> "", args |-> <<>>, kwargs |-> <<>>,
               name |-> "", _state |-> <<>>]

\* Filter.__setattr__ with a State value: the entry `key` of self._state
FilterSetAttr(self, key, value) == [self EXCEPT !._state = DictSet(@, key, value)]

\* save_state: the mapping name -> payload of the populated entries
SaveState(self) ==
    [i \in 1..Len(self._state) |->
        [name |-> self._state[i].key, payload |-> self._state[i].value.v]]

\* A load_state that restores the first stored entry only.
LoadStateFirst(self, stored) ==
    IF stored = <<>> THEN self
    ELSE FilterSetAttr(self, stored[1].name, State(stored[1].payload))

\* load_state: every stored payload becomes the State of its name
RECURSIVE LoadState(_, _)
LoadState(self, stored) ==
    IF stored = <<>> THEN self
    ELSE LoadState(FilterSetAttr(self, stored[1].name, State(stored[1].payload)),
                   Tail(stored))

----------------------------------------------------------------------------
(* class Atom *)

Callables ==
    {"square", "scale", "add", "nonzero", "integrate",
     "cumsum", "guarded", "delay2", "short2", "long2"}

Constructed(obj) == [raised |-> FALSE, err |-> "", obj |-> obj]

Failed(err) == [raised |-> TRUE, err |-> err, obj |-> FilterInit]

NEllipsis(args) == Cardinality({i \in 1..Len(args) : args[i].t = "ellipsis"})

\* An Atom.__init__ that does not count the placeholders.
AtomInitUncounted(func, args, name, kwargs) ==
    LET args1 == IF NEllipsis(args) = 0 THEN <<Ellipsis>> \o args ELSE args IN
    IF func \notin Callables THEN Failed("TypeError")
    ELSE Constructed([FilterInit EXCEPT !.cls = "Atom", !.func = func,
                         !.args = args1, !.kwargs = kwargs, !.name = name])

\* An Atom.__init__ that stores the arguments as given.
AtomInitAsGiven(func, args, name, kwargs) ==
    IF func \notin Callables THEN Failed("TypeError")
    ELSE IF NEllipsis(args) > 1 THEN Failed("ValueError")
    ELSE Constructed([FilterInit EXCEPT !.cls = "Atom", !.func = func,
                         !.args = args, !.kwargs = kwargs, !.name = name])

\* Atom.__init__(func, *args, name=None, **kwargs)
AtomInit(func, args, name, kwargs) ==
    LET args1 == IF NEllipsis(args) = 0 THEN <<Ellipsis>> \o args ELSE args IN
    IF func \notin Callables THEN Failed("TypeError")
    ELSE IF NEllipsis(args1) > 1 THEN Failed("ValueError")
    ELSE Constructed([FilterInit EXCEPT !.cls = "Atom", !.func = func,
                         !.args = args1, !.kwargs = kwargs, !.name = name])

\* A substitution that puts the input in the first slot, wherever the
\* placeholder is.
SubstituteFirst(args, x) ==
    [i \in 1..Len(args) |-> IF i = 1 THEN Data(x) ELSE args[i]]

\* args = tuple(x if arg is ... else arg for arg in self.args)
Substitute(args, x) ==
    [i \in 1..Len(args) |-> IF args[i].t = "ellipsis" THEN Data(x) ELSE args[i]]

\* An Atom.__call__ that keeps the substituted arguments in self.args.
AtomCallBinding(self, x) ==
    LET args == Substitute(self.args, x)
        r == Call(self.func, args, self.kwargs)
    IN  [raised |-> r.raised, err |-> r.err, value |-> r.value,
         self |-> [self EXCEPT !.args = args], args |-> args, kwargs |-> self.kwargs,
         ret |-> r]

\* Atom.__call__(x): what it returns or raises, the object after the call, the
\* keyword arguments the callable received and what the callable did.
AtomCall(self, x) ==
    LET args == Substitute(self.args, x)
        r == Call(self.func, args, self.kwargs)
    IN  [raised |-> r.raised, err |-> r.err, value |-> r.value,
         self |-> self, args |-> args, kwargs |-> self.kwargs,
         ret |-> r]

----------------------------------------------------------------------------
(* class StateAtom(Atom) *)

\* The three forms of the `state` argument.
StrSpec(name) == [form |-> "str", keys |-> <<name>>, values |-> <<>>]

TupleSpec(names) == [form |-> "tuple", keys |-> names, values |-> <<>>]

DictSpec(names, values) == [form |-> "dict", keys |-> names, values |-> values]

\* A reading of the state argument that drops the initial values of a mapping.
StateItemsNamesOnly(state) ==
    DictZip(state.keys, [i \in 1..Len(state.keys) |-> INIT])

\* A reading of the state argument that starts the names given without a
\* value from 0.
StateItemsZeroed(state) ==
    CASE state.form = "str" -> <<Item(state.keys[1], 0)>>
      [] state.form = "tuple" ->
            DictZip(state.keys, [i \in 1..Len(state.keys) |-> 0])
      [] state.form = "dict" -> DictZip(state.keys, state.values)

\* state = {state: "init"}, dict(zip(state, ["init"] * len(state))), or state
StateItems(state) ==
    CASE state.form = "str" -> <<Item(state.keys[1], INIT)>>
      [] state.form = "tuple" ->
            DictZip(state.keys, [i \in 1..Len(state.keys) |-> INIT])
      [] state.form = "dict" -> DictZip(state.keys, state.values)

\* for key, value in items: setattr(self, key, State(value))
RECURSIVE SetStates(_, _)
SetStates(self, items) ==
    IF items = <<>> THEN self
    ELSE SetStates(FilterSetAttr(self, items[1].key, State(items[1].value)),
                   Tail(items))

\* A StateAtom.__init__ without a reserved name.
StateAtomInitUnreserved(func, args, state, name, kwargs) ==
    LET base == AtomInit(func, args, name, kwargs)
        items == StateItems(state)
    IN  IF base.raised THEN base
        ELSE Constructed(SetStates([base.obj EXCEPT !.cls = "StateAtom"], items))

\* StateAtom.__init__(func, *args, state, name=None, **kwargs)
StateAtomInit(func, args, state, name, kwargs) ==
    LET base == AtomInit(func, args, name, kwargs)
        items == StateItems(state)
    IN  IF base.raised THEN base
        ELSE IF \E i \in 1..Len(items) : items[i].key = "state"
        THEN Failed("KeyError")
        ELSE Constructed(SetStates([base.obj EXCEPT !.cls = "StateAtom"], items))

\* A StateAtom.__call__ that drops the states the callable returned.
StateAtomCallStale(self, x) ==
    LET args == Substitute(self.args, x)
        kwargs == DictMerge(self.kwargs, self._state)
        r == Call(self.func, args, kwargs)
    IN  [raised |-> r.raised, err |-> r.err,
         value |-> IF r.raised THEN <<>> ELSE Head(r.value),
         self |-> self, args |-> args, kwargs |-> kwargs,
         ret |-> r]

Reverse(seq) == [i \in 1..Len(seq) |-> seq[Len(seq) + 1 - i]]

\* A StateAtom.__call__ that binds the returned states last to first.
StateAtomCallReversed(self, x) ==
    LET args == Substitute(self.args, x)
        kwargs == DictMerge(self.kwargs, self._state)
        r == Call(self.func, args, kwargs)
    IN  [raised |-> r.raised, err |-> r.err,
         value |-> IF r.raised THEN <<>> ELSE Head(r.value),
         self |-> IF r.raised THEN self
                  ELSE SetStates(self, DictZip(DictKeys(self._state),
                                               Reverse(Tail(r.value)))),
         args |-> args, kwargs |-> kwargs,
         ret |-> r]

\* A StateAtom.__call__ that clears its states when the callable raises.
StateAtomCallClearing(self, x) ==
    LET args == Substitute(self.args, x)
        kwargs == DictMerge(self.kwargs, self._state)
        r == Call(self.func, args, kwargs)
    IN  [raised |-> r.raised, err |-> r.err,
         value |-> IF r.raised THEN <<>> ELSE Head(r.value),
         self |-> IF r.raised
                  THEN SetStates(self, [i \in 1..Len(self._state) |->
                                            Item(self._state[i].key, INIT)])
                  ELSE SetStates(self, DictZip(DictKeys(self._state), Tail(r.value))),
         args |-> args, kwargs |-> kwargs,
         ret |-> r]

\* A StateAtom.__call__ that rebuilds the state dict from what the callable
\* returned.
StateAtomCallRebuilding(self, x) ==
    LET args == Substitute(self.args, x)
        kwargs == DictMerge(self.kwargs, self._state)
        r == Call(self.func, args, kwargs)
    IN  [raised |-> r.raised, err |-> r.err,
         value |-> IF r.raised THEN <<>> ELSE Head(r.value),
         self |-> IF r.raised THEN self
                  ELSE SetStates([self EXCEPT !._state = <<>>],
                                 DictZip(DictKeys(self._state), Tail(r.value))),
         args |-> args, kwargs |-> kwargs, ret |-> r]

\* A StateAtom.__call__ that keeps the merged keyword arguments in self.kwargs.
StateAtomCallKeeping(self, x) ==
    LET args == Substitute(self.args, x)
        kwargs == DictMerge(self.kwargs, self._state)
        r == Call(self.func, args, kwargs)
    IN  [raised |-> r.raised, err |-> r.err,
         value |-> IF r.raised THEN <<>> ELSE Head(r.value),
         self |-> IF r.raised THEN [self EXCEPT !.kwargs = kwargs]
                  ELSE SetStates([self EXCEPT !.kwargs = kwargs],
                                 DictZip(DictKeys(self._state), Tail(r.value))),
         args |-> args, kwargs |-> kwargs, ret |-> r]

\* StateAtom.__call__(x): what it returns or raises, the object after the call,
\* the keyword arguments the callable received and what the callable did.
StateAtomCall(self, x) ==
    LET args == Substitute(self.args, x)
        kwargs == DictMerge(self.kwargs, self._state)
        r == Call(self.func, args, kwargs)
    IN  IF r.raised
        THEN [raised |-> TRUE, err |-> r.err, value |-> <<>>, self |-> self,
              args |-> args, kwargs |-> kwargs,
         ret |-> r]
        ELSE [raised |-> FALSE, err |-> "", value |-> Head(r.value),
              self |-> SetStates(self, DictZip(DictKeys(self._state), Tail(r.value))),
              args |-> args, kwargs |-> kwargs,
         ret |-> r]

\* A reset that forgets the entries after the first.
StateAtomResetFirst(self) ==
    SetStates(self, [i \in 1..Min(1, Len(self._state)) |->
                        Item(self._state[i].key, INIT)])

\* StateAtom.reset()
StateAtomReset(self) ==
    SetStates(self, [i \in 1..Len(self._state) |-> Item(self._state[i].key, INIT)])

----------------------------------------------------------------------------
(* class Sequence(list) *)

\* What a list handed to Sequence may hold: an Atom or StateAtom object (by
\* identity), a Sequence, or anything else, such as a bare callable.
AtomObj(id) == [kind |-> "atom", id |-> id, func |-> "", items |-> <<>>, name |-> ""]

Bare(func) == [kind |-> "callable", id |-> 0, func |-> func, items |-> <<>>, name |-> ""]

SequenceObj(items, name) ==
    [kind |-> "sequence", id |-> 0, func |-> "", items |-> items, name |-> name]

\* A Sequence.__init__ that appends every element as it is.
RECURSIVE SequenceAppendAsIs(_, _, _, _)
SequenceAppendAsIs(atoms, self, heap, i) ==
    IF i > Len(atoms) THEN [raised |-> FALSE, err |-> "", obj |-> self, heap |-> heap]
    ELSE SequenceAppendAsIs(atoms, [self EXCEPT !.items = Append(@, atoms[i])], heap,
                            i + 1)

\* Sequence.__init__(atoms, name): the Sequence, and the heap with the Atoms it
\* wrapped around the elements that were neither Atom nor Sequence.
RECURSIVE SequenceAppend(_, _, _, _)
SequenceAppend(atoms, self, heap, i) ==
    IF i > Len(atoms) THEN [raised |-> FALSE, err |-> "", obj |-> self, heap |-> heap]
    ELSE IF atoms[i].kind \notin {"atom", "sequence"}
    THEN LET made == AtomInit(atoms[i].func, <<>>, "", <<>>) IN
         IF made.raised
         THEN [raised |-> TRUE, err |-> made.err, obj |-> self, heap |-> heap]
         ELSE SequenceAppend(atoms,
                             [self EXCEPT !.items = Append(@, AtomObj(Len(heap) + 1))],
                             Append(heap, made.obj), i + 1)
    ELSE SequenceAppend(atoms, [self EXCEPT !.items = Append(@, atoms[i])], heap, i + 1)

SequenceInit(atoms, name, heap) == SequenceAppend(atoms, SequenceObj(<<>>, name), heap, 1)

\* One invocation of a member, as the fold saw it.
Invoked(path, member, x, r) ==
    [path |-> path, kind |-> member.kind, id |-> member.id, x |-> x,
     raised |-> r.raised, err |-> r.err, out |-> r.value, kwargs |-> r.kwargs]

\* atom(x) for a member that is an Atom or a StateAtom: the __call__ of its class
MemberCall(obj, x) ==
    IF obj.cls = "StateAtom" THEN StateAtomCall(obj, x) ELSE AtomCall(obj, x)

\* A fold in which the StateAtoms of one callable share their states.
FoldedShared(c, heap, id) ==
    [raised |-> c.raised, err |-> c.err, value |-> c.value,
     heap |-> [j \in 1..Len(heap) |->
                  IF j = id THEN c.self
                  ELSE IF heap[j].cls = "StateAtom" /\ heap[j].func = heap[id].func
                  THEN [heap[j] EXCEPT !._state = c.self._state]
                  ELSE heap[j]],
     log |-> <<>>, kwargs |-> c.kwargs]

\* What the fold keeps of atom(x), c being what the __call__ of the object `id`
\* gave: the result, and the heap with the object as the call left it
Folded(c, heap, id) ==
    [raised |-> c.raised, err |-> c.err, value |-> c.value,
     heap |-> [heap EXCEPT ![id] = c.self], log |-> <<>>, kwargs |-> c.kwargs]

\* for atom in self: x = atom(x), from member i on.  The log lists the
\* invocations in the order they ended.
RECURSIVE SequenceFold(_, _, _, _, _, _)
RECURSIVE SequenceStep(_, _, _, _, _, _)
\* A fold in which a nested Sequence works on copies of its members.
SequenceFoldDetached(self, i, x, heap, log, path) ==
    IF i > Len(self.items)
    THEN [raised |-> FALSE, err |-> "", value |-> x, heap |-> heap, log |-> log,
          kwargs |-> <<>>]
    ELSE IF self.items[i].kind = "sequence"
    THEN SequenceStep(self, i, x, log, path,
                      [SequenceFold(self.items[i], 1, x, heap, <<>>, path \o <<i>>)
                          EXCEPT !.heap = heap])
    ELSE SequenceStep(self, i, x, log, path,
                      Folded(MemberCall(heap[self.items[i].id], x), heap,
                             self.items[i].id))

SequenceFold(self, i, x, heap, log, path) ==
    IF i > Len(self.items)
    THEN [raised |-> FALSE, err |-> "", value |-> x, heap |-> heap, log |-> log,
          kwargs |-> <<>>]
    ELSE IF self.items[i].kind = "sequence"
    THEN SequenceStep(self, i, x, log, path,
                      SequenceFold(self.items[i], 1, x, heap, <<>>, path \o <<i>>))
    ELSE SequenceStep(self, i, x, log, path,
                      Folded(MemberCall(heap[self.items[i].id], x), heap,
                             self.items[i].id))

\* A fold that catches what a member raises and goes on with the member's input.
SequenceStepSwallowing(self, i, x, log, path, r) ==
    SequenceFold(self, i + 1, IF r.raised THEN x ELSE r.value, r.heap,
                 log \o r.log \o <<Invoked(path \o <<i>>, self.items[i], x, r)>>,
                 path)

\* x = atom(x) done, r being what atom(x) gave: a raise ends the call
SequenceStep(self, i, x, log, path, r) ==
    IF r.raised
    THEN [raised |-> TRUE, err |-> r.err, value |-> <<>>,
          heap |-> r.heap,
          log |-> log \o r.log \o <<Invoked(path \o <<i>>, self.items[i], x, r)>>,
          kwargs |-> <<>>]
    ELSE SequenceFold(self, i + 1, r.value, r.heap,
                      log \o r.log \o <<Invoked(path \o <<i>>, self.items[i], x, r)>>,
                      path)

\* A Sequence.__call__ that runs its members last to first.
SequenceCallBackwards(self, x, heap) ==
    SequenceFold([self EXCEPT !.items = Reverse(@)], 1, x, heap, <<>>, <<>>)

\* Sequence.__call__(x)
SequenceCall(self, x, heap) == SequenceFold(self, 1, x, heap, <<>>, <<>>)

\* Sequence.reset(): the heap after it
RECURSIVE SequenceResetFrom(_, _, _)
SequenceResetFrom(self, heap, i) ==
    IF i > Len(self.items) THEN heap
    ELSE LET atom == self.items[i] IN
         IF atom.kind = "atom" /\ heap[atom.id].cls = "StateAtom"
         THEN SequenceResetFrom(self,
                                [heap EXCEPT ![atom.id] = StateAtomReset(heap[atom.id])],
                                i + 1)
         ELSE SequenceResetFrom(self, heap, i + 1)

SequenceReset(self, heap) == SequenceResetFrom(self, heap, 1)

----------------------------------------------------------------------------
(* The life of a StateAtom A and of a second StateAtom B built the same way *)

Construction(func, args, state, kwargs) ==
    [func |-> func, args |-> args, state |-> state, name |-> "", kwargs |-> kwargs]

\* The constructions the model draws from: every form of the state argument,
\* one and two declared states, callables that keep the calling convention
\* and callables that break it.
Ctors ==
    { Construction("cumsum", <<>>, StrSpec("zi"), <<>>),
      Construction("cumsum", <<Ellipsis>>, DictSpec(<<"zi">>, <<INIT>>), <<>>),
      Construction("cumsum", <<Ellipsis>>, DictSpec(<<"zi">>, <<1>>), <<>>),
      Construction("cumsum", <<>>, StrSpec("zf"), <<>>),
      Construction("guarded", <<>>, StrSpec("zi"), <<>>),
      Construction("delay2", <<>>, TupleSpec(<<"z1", "z2">>), <<>>),
      Construction("delay2", <<>>, TupleSpec(<<"z2", "z1">>), <<>>),
      Construction("short2", <<>>, TupleSpec(<<"z1", "z2">>), <<>>),
      Construction("long2", <<Ellipsis>>, TupleSpec(<<"z1", "z2">>), <<>>) }

New(c) == StateAtomInit(c.func, c.args, c.state, c.name, c.kwargs)

NoOp ==
    [op |-> "new", x |-> <<>>, kwargs |-> <<>>, ret |-> Returned(<<>>),
     raised |-> FALSE, err |-> "", out |-> <<>>, before |-> <<>>]

Applied(self, x, r) ==
    [op |-> "apply", x |-> x, kwargs |-> r.kwargs, ret |-> r.ret,
     raised |-> r.raised, err |-> r.err, out |-> r.value, before |-> self._state]

\* What is kept of the operation before the last one: its kind, what the
\* callable did in it and, when the callable raised, the state it was called in.
Before(op) ==
    [op |-> op.op, ret |-> op.ret,
     before |-> IF op.ret.raised THEN op.before ELSE <<>>]

\* What is kept of an operation on B: its kind and what the caller got.
Outcome(x, r) ==
    [op |-> "apply", x |-> x, raised |-> r.raised, err |-> r.err, out |-> r.value]

NoOutcome == [op |-> "new", x |-> <<>>, raised |-> FALSE, err |-> "", out |-> <<>>]

NoContainer == [saved |-> FALSE, stored |-> <<>>, current |-> FALSE]

Populated(self) ==
    \A i \in 1..Len(self._state) : self._state[i].value.t = "Value"

InitAtom ==
    /\ ctor \in {c \in Ctors : ~New(c).raised}
    /\ atomA = New(ctor).obj
    /\ ins = <<>>
    /\ outs = <<>>
    /\ last = NoOp
    /\ prev = Before(NoOp)
    /\ wasReset = FALSE
    /\ renewed = NoOp

InitTwin ==
    /\ atomB = New(ctor).obj
    /\ discarded = FALSE
    /\ usedB = FALSE
    /\ container = NoContainer
    /\ rel = "paired"
    /\ lastA = NoOutcome
    /\ lastB = NoOutcome

\* A(x): the caller passes the next chunk to A
Apply(x) ==
    LET r == StateAtomCall(atomA, x) IN
    /\ Len(ins) + Len(x) <= MaxLen
    /\ atomA' = r.self
    /\ last' = Applied(atomA, x, r)
    /\ prev' = Before(last)
    /\ ins' = IF r.raised THEN ins ELSE ins \o x
    /\ outs' = IF r.raised THEN outs ELSE outs \o r.value
    /\ renewed' = NoOp
    /\ UNCHANGED <<ctor, wasReset, twinVars, seqVars, buildVars, ioVars>>

\* A.reset()
Reset ==
    /\ atomA' = StateAtomReset(atomA)
    /\ last' = [NoOp EXCEPT !.op = "reset"]
    /\ prev' = Before(last)
    /\ ins' = <<>>
    /\ outs' = <<>>
    /\ wasReset' = TRUE
    /\ renewed' = NoOp
    /\ UNCHANGED <<ctor, twinVars, seqVars, buildVars, ioVars>>

\* StateAtom(...)(x): the caller constructs a StateAtom for the chunk A just
\* processed and passes it that chunk
ApplyFresh ==
    /\ last.op = "apply" /\ renewed.op = "new"
    /\ renewed' = Applied(New(ctor).obj, last.x, StateAtomCall(New(ctor).obj, last.x))
    /\ UNCHANGED <<ctor, atomA, ins, outs, last, prev, wasReset, twinVars, seqVars,
                   buildVars, ioVars>>

\* No Sequence is under test.
IdleSeq ==
    /\ built = <<>>
    /\ store = <<>>
    /\ pipeline = <<>>
    /\ fed = <<>>
    /\ got = <<>>
    /\ lastSeq = <<>>

\* Nothing is being constructed.
NoRequest ==
    [op |-> "none", func |-> "", args |-> <<>>, kwargs |-> <<>>,
     state |-> TupleSpec(<<>>), atoms |-> <<>>, heap |-> <<>>]

NotMade ==
    [done |-> FALSE, raised |-> FALSE, err |-> "", obj |-> FilterInit, heap |-> <<>>,
     called |-> FALSE, value |-> <<>>]

NotUsed ==
    [op |-> "none", x |-> <<>>, args |-> <<>>, kwargs |-> <<>>,
     raised |-> FALSE, err |-> "", out |-> <<>>]

IdleBuild ==
    /\ request = NoRequest
    /\ result = NotMade
    /\ used = NotUsed

\* No Selection is under test.
IdleSelection ==
    /\ selection = <<>>
    /\ eager = <<>>
    /\ lastSel = <<>>

\* No DataLayout is under test.
IdleLayout ==
    /\ layout = <<>>
    /\ sliced = <<>>
    /\ linked = <<>>
    /\ lastSet = <<>>

\* No Selection and no DataLayout is under test.
IdleSel == IdleSelection /\ IdleLayout /\ nSel = 0

\* No publisher and no subscriber is under test.
IdleZmq ==
    /\ publisher = <<>>
    /\ wire = <<>>
    /\ subscriber = <<>>
    /\ inbox = <<>>
    /\ lastSubmit = <<>>
    /\ lastNext = <<>>

\* No Selection is held by reference.
IdleDerived ==
    /\ memory = <<>>
    /\ held = {}
    /\ lastGet = <<>>

Init ==
    InitAtom /\ InitTwin /\ IdleSeq /\ IdleBuild /\ IdleSel /\ IdleZmq /\ IdleDerived

Next ==
    \/ \E x \in Chunks : Apply(x)
    \/ Reset
    \/ ApplyFresh

Spec == Init /\ [][Next]_vars

----------------------------------------------------------------------------
(* Two StateAtoms of one construction: A, and B which stays unused until the *)
(* caller loads a checkpoint into it or starts passing it A's chunks.        *)

\* The chunks passed to A and B: one sample shorter than those passed to a
\* single StateAtom, the two objects squaring the number of states.
TwinChunks == UNION {[1..n -> Samples] : n \in 1..(MaxChunk - 1)}

\* A(x): the caller passes a chunk to A alone
ApplyA(x) ==
    /\ atomA' = StateAtomCall(atomA, x).self
    /\ rel' = "none"
    /\ lastA' = NoOutcome
    /\ lastB' = NoOutcome
    /\ container' = [container EXCEPT !.current = FALSE]
    /\ UNCHANGED <<ctor, atomB, discarded, usedB, histVars, seqVars, buildVars, ioVars>>

\* B(x): the caller passes a chunk to B alone
ApplyB(x) ==
    /\ atomB' = StateAtomCall(atomB, x).self
    /\ usedB' = TRUE
    /\ rel' = "none"
    /\ lastA' = NoOutcome
    /\ lastB' = NoOutcome
    /\ UNCHANGED <<ctor, atomA, discarded, container, histVars, seqVars, buildVars, ioVars>>

\* A(x) and B(x): the caller passes the same chunk to A, then to B, each
\* call leaving its object in the heap the two objects live in
ApplyBoth(x) ==
    /\ rel # "none"
    /\ \E a \in {Folded(StateAtomCall(atomA, x), <<atomA, atomB>>, 1)} :
       \E b \in {Folded(StateAtomCall(a.heap[2], x), a.heap, 2)} :
          /\ atomA' = b.heap[1]
          /\ atomB' = b.heap[2]
          /\ lastA' = Outcome(x, a)
          /\ lastB' = Outcome(x, b)
    /\ usedB' = TRUE
    /\ container' = [container EXCEPT !.current = FALSE]
    /\ UNCHANGED <<ctor, discarded, rel, histVars, seqVars, buildVars, ioVars>>

\* A.reset(): A is rewound; an unused B is now the never-used twin of A
ResetA ==
    /\ atomA' = StateAtomReset(atomA)
    /\ rel' = IF usedB THEN "none" ELSE "rewound"
    /\ discarded' = (atomA._state # New(ctor).obj._state)
    /\ lastA' = [NoOutcome EXCEPT !.op = "reset"]
    /\ lastB' = NoOutcome
    /\ container' = [container EXCEPT !.current = FALSE]
    /\ UNCHANGED <<ctor, atomB, usedB, histVars, seqVars, buildVars, ioVars>>

\* A.reset() and B.reset(): the caller, having done the same to both objects
\* since they were constructed, rewinds both
ResetBoth ==
    /\ rel = "paired"
    /\ atomA' = StateAtomReset(atomA)
    /\ atomB' = StateAtomReset(atomB)
    /\ rel' = "paired"
    /\ discarded' = (atomA._state # New(ctor).obj._state)
    /\ usedB' = TRUE
    /\ lastA' = [NoOutcome EXCEPT !.op = "reset"]
    /\ lastB' = [NoOutcome EXCEPT !.op = "reset"]
    /\ container' = [container EXCEPT !.current = FALSE]
    /\ UNCHANGED <<ctor, histVars, seqVars, buildVars, ioVars>>

\* A.save_state(container), between two applies of a populated A
Save ==
    /\ Populated(atomA)
    /\ ~container.current
    /\ container' = [saved |-> TRUE, stored |-> SaveState(atomA), current |-> TRUE]
    /\ UNCHANGED <<ctor, atomA, atomB, discarded, usedB, rel, lastA, lastB, histVars, seqVars, buildVars, ioVars>>

\* B.load_state(container): B resumes A when A has not moved since the save
Load ==
    /\ container.saved
    /\ atomB' = LoadState(atomB, container.stored)
    /\ usedB' = TRUE
    /\ rel' = IF container.current THEN "resumed" ELSE "none"
    /\ lastA' = NoOutcome
    /\ lastB' = [NoOutcome EXCEPT !.op = "load"]
    /\ UNCHANGED <<ctor, atomA, discarded, container, histVars, seqVars, buildVars, ioVars>>

NextTwin ==
    \/ \E x \in TwinChunks : ApplyA(x)
    \/ \E x \in TwinChunks : ApplyB(x)
    \/ \E x \in TwinChunks : ApplyBoth(x)
    \/ ResetA
    \/ ResetBoth
    \/ Save
    \/ Load

SpecTwin == Init /\ [][NextTwin]_vars

----------------------------------------------------------------------------
(* A Sequence over a pool of Atoms and StateAtoms, fed chunk after chunk *)

\* The objects the caller built before building the Sequence.
Pool ==
    << AtomInit("add", <<Ellipsis, Num(1)>>, "", <<>>).obj,
       AtomInit("integrate", <<>>, "", <<>>).obj,
       StateAtomInit("cumsum", <<>>, StrSpec("zi"), "", <<>>).obj,
       StateAtomInit("delay2", <<>>, TupleSpec(<<"z1", "z2">>), "", <<>>).obj,
       AtomInit("nonzero", <<>>, "", <<>>).obj,
       StateAtomInit("cumsum", <<>>, StrSpec("zi"), "", <<>>).obj >>

\* A list the caller writes inside the list it hands to Sequence: Sequence(items).
Nested(items) == [kind |-> "list", id |-> 0, func |-> "", items |-> items, name |-> ""]

\* The lists the model builds a Sequence from: empty, flat, nested to depth
\* two, pure and stateful members, a bare callable, a raising member at the
\* top and inside a nested Sequence, one object at two positions, and two
\* StateAtoms of one construction.
Pipelines ==
    { <<>>,
      <<AtomObj(1)>>,
      <<AtomObj(1), AtomObj(2)>>,
      <<AtomObj(2), AtomObj(1)>>,
      <<AtomObj(1), Bare("square")>>,
      <<AtomObj(1), Nested(<<AtomObj(1)>>)>>,
      <<AtomObj(3)>>,
      <<AtomObj(1), AtomObj(3)>>,
      <<AtomObj(3), AtomObj(4)>>,
      <<AtomObj(3), Nested(<<AtomObj(4)>>)>>,
      <<Nested(<<AtomObj(1), Nested(<<AtomObj(3)>>)>>)>>,
      <<AtomObj(3), AtomObj(5)>>,
      <<AtomObj(5), AtomObj(2)>>,
      <<Nested(<<AtomObj(5), AtomObj(1)>>), AtomObj(2)>>,
      <<AtomObj(3), AtomObj(3)>>,
      <<AtomObj(3), AtomObj(6)>> }

\* Sequence(items), the inner Sequences being constructed before the outer one.
RECURSIVE Build(_, _)
RECURSIVE BuildItems(_, _, _, _)
BuildItems(items, heap, i, done) ==
    IF i > Len(items) THEN [items |-> done, heap |-> heap]
    ELSE IF items[i].kind = "list"
    THEN LET inner == Build(items[i].items, heap)
         IN  BuildItems(items, inner.heap, i + 1, Append(done, inner.obj))
    ELSE BuildItems(items, heap, i + 1, Append(done, items[i]))

Build(items, heap) ==
    LET elements == BuildItems(items, heap, 1, <<>>)
    IN  SequenceInit(elements.items, "", elements.heap)

NoCall ==
    [op |-> "new", x |-> <<>>, raised |-> FALSE, err |-> "", out |-> <<>>,
     log |-> <<>>, before |-> <<>>]

InitSeq ==
    \E p \in Pipelines :
        /\ ~Build(p, Pool).raised
        /\ pipeline = Build(p, Pool).obj
        /\ built = Build(p, Pool).heap
        /\ store = Build(p, Pool).heap
        /\ fed = <<>>
        /\ got = <<>>
        /\ lastSeq = NoCall

\* No single StateAtom is under test.
IdleAtom ==
    /\ ctor = Construction("", <<>>, TupleSpec(<<>>), <<>>)
    /\ atomA = FilterInit
    /\ atomB = FilterInit
    /\ ins = <<>>
    /\ outs = <<>>
    /\ last = NoOp
    /\ prev = Before(NoOp)
    /\ wasReset = FALSE
    /\ renewed = NoOp
    /\ discarded = FALSE
    /\ usedB = FALSE
    /\ container = NoContainer
    /\ rel = "none"
    /\ lastA = NoOutcome
    /\ lastB = NoOutcome

\* pipeline(x): the caller passes the next chunk to the Sequence
SeqApply(x) ==
    LET r == SequenceCall(pipeline, x, store) IN
    /\ Len(fed) + Len(x) <= MaxLen
    /\ store' = r.heap
    /\ lastSeq' = [op |-> "apply", x |-> x, raised |-> r.raised, err |-> r.err,
                   out |-> r.value, log |-> r.log, before |-> store]
    /\ fed' = IF r.raised THEN fed ELSE fed \o x
    /\ got' = IF r.raised THEN got ELSE got \o r.value
    /\ UNCHANGED <<built, pipeline, ctor, atomA, histVars, twinVars, buildVars, ioVars>>

\* pipeline.reset()
SeqReset ==
    /\ store' = SequenceReset(pipeline, store)
    /\ lastSeq' = [NoCall EXCEPT !.op = "reset", !.before = store]
    /\ fed' = <<>>
    /\ got' = <<>>
    /\ UNCHANGED <<built, pipeline, ctor, atomA, histVars, twinVars, buildVars, ioVars>>

NextSeq ==
    \/ \E x \in Chunks : SeqApply(x)
    \/ SeqReset

InitPipeline ==
    IdleAtom /\ InitSeq /\ IdleBuild /\ IdleSel /\ IdleZmq /\ IdleDerived

SpecSeq == InitPipeline /\ [][NextSeq]_vars

----------------------------------------------------------------------------
(* Construction: Atom(...), StateAtom(...), a call of an atomized function  *)
(* and Sequence([...]), then calls of the Atom that was made.               *)

\* The positional arguments a caller writes: at most MaxArgs of them.
MaxArgs == 2

\* None
None == [t |-> "none", v |-> 0]

\* A state specification passed as the keyword argument `state`.
StateRequest(state) == [t |-> "spec", v |-> state]

\* kwargs without the key k
DictDel(d, k) == SelectSeq(d, LAMBDA e : e.key # k)

\* What a construction gave, with whether the callable was invoked meanwhile
\* and, if it was, what it returned.
Made(c, heap) ==
    [done |-> TRUE, raised |-> c.raised, err |-> c.err, obj |-> c.obj,
     heap |-> heap, called |-> FALSE, value |-> <<>>]

\* func(*args, **kwargs), called directly
Direct(func, args, kwargs) ==
    LET r == Call(func, args, kwargs) IN
    [done |-> TRUE, raised |-> r.raised, err |-> r.err, obj |-> FilterInit,
     heap |-> <<>>, called |-> TRUE, value |-> r.value]

\* An atomized function that builds a StateAtom whenever a placeholder is given.
AtomizedStateful(func, args, kwargs) ==
    IF NEllipsis(args) > 0
    THEN Made(StateAtomInit(func, args,
                            IF DictHas(kwargs, "state") /\ DictGet(kwargs, "state").t = "spec"
                            THEN DictGet(kwargs, "state").v ELSE StrSpec("zi"),
                            "", DictDel(kwargs, "state")), <<>>)
    ELSE Direct(func, args, kwargs)

\* atomized(func)(*args, **kwargs): the wrapper the decorator returns
Atomized(func, args, kwargs) ==
    IF NEllipsis(args) > 0
    THEN IF DictHas(kwargs, "state") /\ DictGet(kwargs, "state").t # "none"
         THEN Made(StateAtomInit(func, args, DictGet(kwargs, "state").v, "",
                                 DictDel(kwargs, "state")), <<>>)
         ELSE Made(AtomInit(func, args, "", kwargs), <<>>)
    ELSE Direct(func, args, kwargs)

\* The arguments the model draws from.
ArgValues == {Ellipsis, Num(1), Data(<<1>>)}

ArgLists == UNION {[1..n -> ArgValues] : n \in 0..MaxArgs}

Placeholders == {a \in ArgLists : \A i \in 1..Len(a) : a[i] = Ellipsis}

KwargSets == {<<>>, <<Item("k", Num(1))>>}

StateNames == {"zi", "z1", "z2", "state"}

\* Every form of the state argument: a name, one or two names (one name
\* twice included), a mapping of one or two names to "init" or to a value.
StateSpecs ==
    {StrSpec(n) : n \in StateNames}
    \cup {TupleSpec(<<n>>) : n \in StateNames}
    \cup {TupleSpec(<<a, b>>) : a \in StateNames, b \in StateNames}
    \cup {DictSpec(<<n>>, <<v>>) : n \in StateNames, v \in {INIT} \cup Samples}
    \cup {DictSpec(<<a, b>>, <<v, w>>) :
              a \in {"z1", "state"}, b \in {"z2"}, v \in {INIT, 1}, w \in {INIT, 0}}

\* The state requests an atomized function is called with: none, None, a spec.
StateKwargs ==
    {<<>>, <<Item("state", None)>>}
    \cup {<<Item("state", StateRequest(sp))>> :
              sp \in {StrSpec("zi"), StrSpec("state"), TupleSpec(<<"z1", "z2">>),
                       DictSpec(<<"zi">>, <<1>>)}}

\* The lists handed to Sequence: those of Pipelines and three with bare
\* elements, callable and not.
BuildLists ==
    Pipelines \cup {<<Bare("none")>>, <<AtomObj(1), Bare("square"), Bare("none")>>,
                    <<Bare("square"), AtomObj(3), Nested(<<AtomObj(1)>>), Bare("nonzero")>>}

Asked(op, func, args, kwargs, state) ==
    [NoRequest EXCEPT !.op = op, !.func = func, !.args = args, !.kwargs = kwargs,
                      !.state = state]

\* Sequence(atoms) over the objects of Pool, the inner Sequences of the list
\* being constructed first.
AskedSequence(p) ==
    LET elements == BuildItems(p, Pool, 1, <<>>) IN
    [NoRequest EXCEPT !.op = "Sequence", !.atoms = elements.items,
                      !.heap = elements.heap]

\* The constructions a caller may ask for.
Requests ==
    {Asked("Atom", func, args, kwargs, TupleSpec(<<>>)) :
        func \in {"add", "square", "none"}, args \in ArgLists, kwargs \in KwargSets}
    \cup {Asked("StateAtom", func, args, <<>>, state) :
        func \in {"cumsum", "delay2"}, args \in Placeholders, state \in StateSpecs}
    \cup {Asked("atomized", func, args, kwargs \o state, TupleSpec(<<>>)) :
        func \in {"add", "cumsum"}, args \in ArgLists, kwargs \in KwargSets,
        state \in StateKwargs}
    \cup {AskedSequence(p) : p \in BuildLists}

\* Atom(func, *args, **kwargs)
MakeAtom ==
    /\ request.op = "Atom" /\ ~result.done
    /\ result' = Made(AtomInit(request.func, request.args, "", request.kwargs), <<>>)
    /\ UNCHANGED <<request, used, ctor, atomA, histVars, twinVars, seqVars, ioVars>>

\* StateAtom(func, *args, state=state, **kwargs)
MakeStateAtom ==
    /\ request.op = "StateAtom" /\ ~result.done
    /\ result' = Made(StateAtomInit(request.func, request.args, request.state, "",
                                    request.kwargs), <<>>)
    /\ UNCHANGED <<request, used, ctor, atomA, histVars, twinVars, seqVars, ioVars>>

\* f(*args, **kwargs) for f an atomized function
CallAtomized ==
    /\ request.op = "atomized" /\ ~result.done
    /\ result' = Atomized(request.func, request.args, request.kwargs)
    /\ UNCHANGED <<request, used, ctor, atomA, histVars, twinVars, seqVars, ioVars>>

\* Sequence(atoms)
MakeSequence ==
    LET c == SequenceInit(request.atoms, "", request.heap) IN
    /\ request.op = "Sequence" /\ ~result.done
    /\ result' = Made(c, c.heap)
    /\ UNCHANGED <<request, used, ctor, atomA, histVars, twinVars, seqVars, ioVars>>

\* atom(x): the caller calls the Atom or StateAtom that was made
UseAtom(x) ==
    /\ request.op \in {"Atom", "StateAtom", "atomized"}
    /\ result.done /\ ~result.raised /\ ~result.called
    /\ LET c == MemberCall(result.obj, x) IN
       /\ used' = [op |-> "call", x |-> x, args |-> c.args, kwargs |-> c.kwargs,
                   raised |-> c.raised, err |-> c.err, out |-> c.value]
       /\ result' = [result EXCEPT !.obj = c.self]
    /\ UNCHANGED <<request, ctor, atomA, histVars, twinVars, seqVars, ioVars>>

AskedFor ==
    /\ request \in Requests
    /\ result = NotMade
    /\ used = NotUsed

InitBuild ==
    IdleAtom /\ IdleSeq /\ AskedFor /\ IdleSel /\ IdleZmq /\ IdleDerived

NextBuild ==
    \/ MakeAtom
    \/ MakeStateAtom
    \/ CallAtomized
    \/ MakeSequence
    \/ \E x \in Chunks : UseAtom(x)

SpecBuild == InitBuild /\ [][NextBuild]_vars

----------------------------------------------------------------------------
(* Properties of one StateAtom (specification Spec) *)

\* The declared state names of the construction, in declaration order.
Declared == ctor.state.keys

\* The initial State the construction gives the i-th declared name.
InitialState(c, i) ==
    IF c.state.form = "dict" /\ c.state.values[i] # INIT
    THEN Value(c.state.values[i]) ELSE Uninitialized

\* What the callable of construction c does on chunk x when the declared names
\* carry the values s: the call a StateAtom makes, without the StateAtom.
Feed(c, s, x) ==
    LET a == AtomInit(c.func, c.args, c.name, c.kwargs).obj
        given == [i \in 1..Len(c.state.keys) |-> Item(c.state.keys[i], State(s[i]))]
    IN  Call(c.func, Substitute(a.args, x), DictMerge(c.kwargs, given))

\* State compatibility of a construction's callable: from every state s it
\* returns one new state per declared name, and its output on X from s followed
\* by its output on Y from the returned states is its output on X ++ Y from s.
StateCompatible(c) ==
    \A s \in [1..Len(c.state.keys) -> {INIT} \cup (0..(Mod - 1))] :
        \A X \in Chunks, Y \in Chunks :
            LET r1 == Feed(c, s, X)
                r == Feed(c, s, X \o Y)
            IN  /\ ~r1.raised /\ ~r.raised
                /\ Len(r1.value) = 1 + Len(c.state.keys)
                /\ LET r2 == Feed(c, Tail(r1.value), Y)
                   IN  /\ ~r2.raised
                       /\ Head(r1.value) \o Head(r2.value) = Head(r.value)

CompatibleCtors == {c \in Ctors : StateCompatible(c)}

\* C1: chunked/monolithic equivalence. For a state-compatible callable, the
\* outputs of one persistent StateAtom over the chunks c1..cn, joined, are the
\* output of one apply of a freshly constructed StateAtom of the same
\* construction to the whole data c1 ++ ... ++ cn.
C1_ChunkedEqualsMonolithic ==
    (ctor \in CompatibleCtors /\ ~wasReset /\ ins # <<>>) =>
        LET whole == StateAtomCall(New(ctor).obj, ins)
        IN  ~whole.raised /\ whole.value = outs

\* A run of two chunks or more whose output depends on the state threaded.
C1_Witness ==
    /\ ctor \in CompatibleCtors /\ ~wasReset
    /\ last.op = "apply" /\ prev.op = "apply"
    /\ Len(ins) = MaxLen
    /\ outs # ins
    /\ last.out # StateAtomCall(New(ctor).obj, last.x).value

\* C3: state threading. The first apply passes the initial State of the
\* construction under each declared name; an apply that follows an apply whose
\* callable returned passes, under the i-th declared name, the i-th state value
\* that callable returned; an apply returns the first element the callable returned.
C3_StateThreading ==
    /\ (last.op = "apply" /\ prev.op = "new") =>
          \A i \in 1..Len(Declared) :
              DictGet(last.kwargs, Declared[i]) = InitialState(ctor, i)
    /\ (last.op = "apply" /\ prev.op = "apply" /\ ~prev.ret.raised) =>
          \A i \in 1..Min(Len(Declared), Len(prev.ret.value) - 1) :
              DictGet(last.kwargs, Declared[i]) = Value(prev.ret.value[i + 1])
    /\ (last.op = "apply" /\ ~last.ret.raised) =>
          ~last.raised /\ last.out = Head(last.ret.value)

\* A second apply that receives two different populated states.
C3_Witness ==
    /\ last.op = "apply" /\ prev.op = "apply" /\ ~prev.ret.raised
    /\ ~last.raised
    /\ Len(Declared) = 2 /\ Len(prev.ret.value) = 3
    /\ DictGet(last.kwargs, Declared[1]) # DictGet(last.kwargs, Declared[2])
    /\ DictGet(last.kwargs, Declared[1]).t = "Value"

\* C8: state-count validation. An apply whose callable returned a number of
\* state values other than the number of declared names raises.
C8_StateCountValidated ==
    (last.op = "apply" /\ ~last.ret.raised
        /\ Len(last.ret.value) - 1 # Len(Declared)) => last.raised

\* C9: atomic state update. After an apply of a StateAtom with two declared
\* names or more, every entry holds the value this call returned for it, or
\* every entry holds the value it had before the call.
C9_AtomicStateUpdate ==
    (last.op = "apply" /\ Len(Declared) >= 2) =>
        \/ atomA._state = last.before
        \/ /\ ~last.ret.raised
           /\ Len(last.ret.value) - 1 >= Len(Declared)
           /\ \A i \in 1..Len(Declared) :
                 atomA._state[i] = Item(Declared[i], Value(last.ret.value[i + 1]))

\* C10: a raising callable. The apply raises the callable's error and leaves
\* every state entry as it was; the next apply receives those entries.
C10_ErrorLeavesState ==
    /\ (last.op = "apply" /\ last.ret.raised) =>
          /\ last.raised /\ last.err = last.ret.err
          /\ atomA._state = last.before
    /\ (last.op = "apply" /\ prev.op = "apply" /\ prev.ret.raised) =>
          \A i \in 1..Len(prev.before) :
              DictGet(last.kwargs, prev.before[i].key) = prev.before[i].value

\* An apply that succeeds on the state a failed apply left behind.
C10_Witness ==
    /\ last.op = "apply" /\ ~last.raised
    /\ prev.op = "apply" /\ prev.ret.raised
    /\ prev.before # <<>>
    /\ \A i \in 1..Len(prev.before) : prev.before[i].value.t = "Value"

----------------------------------------------------------------------------
(* Properties of two StateAtoms of one construction (specification SpecTwin) *)

AllUninitialized(self) ==
    \A i \in 1..Len(self._state) : self._state[i].value = Uninitialized

\* The construction names its states without giving any an initial value.
NoInitialValue(c) == \A i \in 1..Len(c.state.keys) : InitialState(c, i) = Uninitialized

C5_ResetEqualsNeverUsed ==
    /\ lastA.op = "reset" => AllUninitialized(atomA)
    /\ (rel = "rewound" /\ lastA.op = "apply") =>
          /\ lastB = lastA
          /\ atomB._state = atomA._state

\* C5, amended: the same, for a construction that gives no explicit initial value.
C5_ResetEqualsUninitialized ==
    /\ lastA.op = "reset" =>
          /\ AllUninitialized(atomA)
          /\ DictKeys(atomA._state) = Declared
    /\ (rel = "rewound" /\ lastA.op = "apply" /\ NoInitialValue(ctor)) =>
          /\ lastB = lastA
          /\ atomB._state = atomA._state

\* A reset that discarded two populated states, then a chunk passed to A and
\* to the never-used B.
C5_Witness ==
    /\ rel = "rewound" /\ discarded /\ NoInitialValue(ctor)
    /\ Len(Declared) = 2
    /\ lastA.op = "apply" /\ ~lastA.raised
    /\ Populated(atomA)

----------------------------------------------------------------------------
(* Properties of a Sequence (specification SpecSeq) *)

\* The identities of the Atoms and StateAtoms a Sequence reaches, at any depth.
RECURSIVE AtomsOf(_)
AtomsOf(self) ==
    UNION { IF self.items[i].kind = "sequence" THEN AtomsOf(self.items[i])
            ELSE {self.items[i].id} : i \in 1..Len(self.items) }

AllPure(self, heap) == \A id \in AtomsOf(self) : heap[id].cls = "Atom"

\* The callable of a pure Atom distributes over concatenation: on X ++ Y it
\* raises exactly when it raises on X or on Y, and otherwise returns its
\* result on X followed by its result on Y.
Distributive(obj) ==
    \A X \in Chunks, Y \in Chunks :
        LET a == Call(obj.func, Substitute(obj.args, X), obj.kwargs)
            b == Call(obj.func, Substitute(obj.args, Y), obj.kwargs)
            c == Call(obj.func, Substitute(obj.args, X \o Y), obj.kwargs)
        IN  /\ c.raised <=> (a.raised \/ b.raised)
            /\ ~c.raised => c.value = a.value \o b.value

AllDistributive(self, heap) ==
    AllPure(self, heap) /\ \A id \in AtomsOf(self) : Distributive(heap[id])

\* C2 as stated: for a Sequence of pure Atoms, whatever their callables, one
\* apply of the Sequence as constructed to the whole data is the chunk
\* outputs joined.
C2_PureChunkedEqualsWhole ==
    (AllPure(pipeline, built) /\ fed # <<>>) =>
        LET whole == SequenceCall(pipeline, fed, built)
        IN  ~whole.raised /\ whole.value = got

\* C2, amended: the same for a Sequence of pure Atoms whose callables
\* distribute over concatenation (the implication is written with its
\* conclusion first).
C2_DistributiveChunkedEqualsWhole ==
    \/ fed = <<>>
    \/ LET whole == SequenceCall(pipeline, fed, built)
       IN  ~whole.raised /\ whole.value = got
    \/ ~AllDistributive(pipeline, built)

\* Two members, two chunks or more, and an output that is not the input.
C2_Witness ==
    /\ AllDistributive(pipeline, built)
    /\ Len(pipeline.items) = 2
    /\ Len(fed) = MaxLen /\ lastSeq.op = "apply" /\ lastSeq.x # fed
    /\ got # fed

\* The invocations of the direct members in the last apply, in order.
TopLevel == SelectSeq(lastSeq.log, LAMBDA e : Len(e.path) = 1)

\* C6: Sequence.apply folds the input through the members in list order. The
\* members invoked are the first members of the list, each once and in order;
\* the first receives the caller's input and each next one what the one
\* before returned; the call returns what the last member returned (the input
\* for an empty Sequence), every member having been invoked, unless a member
\* raised, which ends the call.
C6_FoldInListOrder ==
    lastSeq.op = "apply" =>
        LET top == TopLevel
            n == Len(pipeline.items)
        IN  /\ Len(top) <= n
            /\ \A k \in 1..Len(top) :
                  /\ top[k].path = <<k>>
                  /\ top[k].kind = pipeline.items[k].kind
                  /\ top[k].id = pipeline.items[k].id
                  /\ top[k].x = IF k = 1 THEN lastSeq.x ELSE top[k - 1].out
                  /\ top[k].raised => k = Len(top)
            /\ ~lastSeq.raised =>
                  /\ Len(top) = n
                  /\ lastSeq.out = IF n = 0 THEN lastSeq.x ELSE top[n].out
            /\ lastSeq.raised => (Len(top) >= 1 /\ top[Len(top)].raised)

\* A returned call of two members that each changed the data.
C6_Witness ==
    /\ lastSeq.op = "apply" /\ ~lastSeq.raised
    /\ Len(TopLevel) = 2
    /\ TopLevel[1].id # TopLevel[2].id
    /\ TopLevel[1].out # TopLevel[1].x
    /\ TopLevel[2].out # TopLevel[2].x
    /\ lastSeq.out = TopLevel[2].out

\* C7: Sequence.reset() is recursive. After reset() every StateAtom the
\* Sequence reaches, at any depth, holds Uninitialized in every entry.
C7_ResetReachesNested ==
    lastSeq.op = "reset" =>
        \A id \in AtomsOf(pipeline) :
            store[id].cls = "StateAtom" => AllUninitialized(store[id])

\* The first invocation of the last apply that raised (0 when none did).
FirstRaise ==
    IF \E k \in 1..Len(lastSeq.log) : lastSeq.log[k].raised
    THEN CHOOSE k \in 1..Len(lastSeq.log) :
            /\ lastSeq.log[k].raised
            /\ \A j \in 1..(k - 1) : ~lastSeq.log[j].raised
    ELSE 0

IsPrefix(p, q) == Len(p) <= Len(q) /\ \A i \in 1..Len(p) : p[i] = q[i]

\* C11: failure of a Sequence apply. When the apply raises, every StateAtom the
\* Sequence reaches holds the state it held before the call.
C11_FailureKeepsStates ==
    (lastSeq.op = "apply" /\ lastSeq.raised) =>
        \A id \in AtomsOf(pipeline) : store[id] = lastSeq.before[id]

\* C12: no recovery. When a member raises, the apply raises that member's
\* error and returns no output; nothing is invoked after the member that
\* raised (the invocations logged after it are the Sequences that hold it,
\* raising in turn), and no member position is invoked twice in one call.
C12_NoRecovery ==
    lastSeq.op = "apply" =>
        LET log == lastSeq.log
            f == FirstRaise
        IN  /\ \A j \in 1..Len(log), k \in 1..Len(log) :
                  log[j].path = log[k].path => j = k
            /\ f = 0 => ~lastSeq.raised
            /\ f # 0 =>
                  /\ lastSeq.raised /\ lastSeq.err = log[f].err
                  /\ lastSeq.out = <<>>
                  /\ \A k \in (f + 1)..Len(log) :
                        /\ IsPrefix(log[k].path, log[f].path)
                        /\ log[k].kind = "sequence"
                        /\ log[k].raised /\ log[k].err = log[f].err

\* A member that raised with members after it, at the top and in a nested Sequence.
C12_Witness ==
    /\ lastSeq.op = "apply" /\ lastSeq.raised
    /\ Len(pipeline.items) = 2
    /\ pipeline.items[1].kind = "sequence" /\ Len(pipeline.items[1].items) = 2
    /\ FirstRaise = 1 /\ Len(lastSeq.log) = 2
    /\ lastSeq.err = "ValueError"

\* C20: state is threaded across calls only. In one apply of a Sequence every
\* invocation of a StateAtom receives, under each declared name, the state the
\* StateAtom held when the apply began.
C20_NoThreadingWithinCall ==
    lastSeq.op = "apply" =>
        \A k \in 1..Len(lastSeq.log) :
            LET e == lastSeq.log[k] IN
            (e.kind = "atom" /\ lastSeq.before[e.id].cls = "StateAtom") =>
                \A j \in 1..Len(lastSeq.before[e.id]._state) :
                    DictGet(e.kwargs, lastSeq.before[e.id]._state[j].key)
                        = lastSeq.before[e.id]._state[j].value

----------------------------------------------------------------------------
(* Properties of construction (specification SpecBuild) *)

IsAtom(obj) == obj.cls \in {"Atom", "StateAtom"}

\* The positional arguments an Atom built from `args` stores.
StoredArgs(args) == IF NEllipsis(args) = 0 THEN <<Ellipsis>> \o args ELSE args

\* C13: more than one placeholder. Atom(...) or StateAtom(...) with two
\* placeholders or more among the positional arguments raises, and nothing
\* is constructed.
C13_ManyPlaceholdersRejected ==
    (result.done /\ request.op \in {"Atom", "StateAtom"}
        /\ NEllipsis(request.args) > 1) =>
        /\ result.raised /\ result.err \in {"ValueError", "TypeError"}
        /\ ~IsAtom(result.obj)

\* A StateAtom of a callable with a valid state and two placeholders.
C13_Witness ==
    /\ result.done /\ request.op = "StateAtom"
    /\ NEllipsis(request.args) = 2
    /\ request.state = StrSpec("zi")
    /\ result.err = "ValueError"

\* C14 as stated: Atom(...) without a placeholder among the positional
\* arguments raises.
C14_NoPlaceholderRejected ==
    (result.done /\ request.op = "Atom" /\ NEllipsis(request.args) = 0) =>
        result.raised

\* C14, amended: Atom(func, ...) of a callable without a placeholder among
\* the positional arguments succeeds and stores the placeholder first, the
\* given arguments after it.
C14_NoPlaceholderPrepended ==
    (result.done /\ request.op = "Atom" /\ NEllipsis(request.args) = 0
        /\ request.func \in Callables) =>
        /\ ~result.raised /\ result.obj.cls = "Atom"
        /\ result.obj.args = <<Ellipsis>> \o request.args

\* An Atom made from two arguments, neither a placeholder.
C14_Witness ==
    /\ result.done /\ request.op = "Atom" /\ ~result.raised
    /\ Len(request.args) = 2 /\ NEllipsis(request.args) = 0
    /\ Len(result.obj.args) = 3

\* C15: placeholder binding. A constructed Atom or StateAtom stores exactly
\* one placeholder, at any time; a call passes the callable the stored
\* positional arguments with the input in the place of the placeholder (the
\* first place when none was given) and the stored keyword arguments.
C15_PlaceholderBinding ==
    (result.done /\ ~result.raised /\ request.op \in {"Atom", "StateAtom"}) =>
        LET stored == StoredArgs(request.args) IN
        /\ NEllipsis(result.obj.args) = 1
        /\ result.obj.args = stored
        /\ used.op = "call" =>
              /\ Len(used.args) = Len(stored)
              /\ \A i \in 1..Len(stored) :
                    used.args[i] = IF stored[i] = Ellipsis THEN Data(used.x)
                                   ELSE stored[i]
              /\ \A i \in 1..Len(request.kwargs) :
                    DictGet(used.kwargs, request.kwargs[i].key)
                        = request.kwargs[i].value
              /\ request.op = "Atom" => used.kwargs = request.kwargs

\* A call that returned, of an Atom whose placeholder is the second argument.
C15_Witness ==
    /\ request.op = "Atom" /\ used.op = "call"
    /\ Len(request.args) = 2 /\ request.args[2] = Ellipsis
    /\ request.kwargs # <<>>
    /\ used.args[1] = request.args[1] /\ used.args[2] = Data(used.x)

\* The names of a state specification, each once, in the order of first mention.
RECURSIVE Distinct(_)
Distinct(names) ==
    IF names = <<>> THEN <<>>
    ELSE LET d == Distinct(SubSeq(names, 1, Len(names) - 1))
             n == names[Len(names)]
         IN  IF \E i \in 1..Len(d) : d[i] = n THEN d ELSE Append(d, n)

Reserved(state) == \E i \in 1..Len(state.keys) : state.keys[i] = "state"

\* The State a specification gives its i-th name.
SpecifiedState(state, i) ==
    IF state.form = "dict" /\ state.values[i] # INIT
    THEN Value(state.values[i]) ELSE Uninitialized

\* C16: the reserved name. StateAtom(...) whose state argument names "state",
\* as the name, as one of the names or as a key of the mapping, raises, and
\* nothing is constructed.
C16_ReservedNameRejected ==
    (result.done /\ request.op = "StateAtom" /\ Reserved(request.state)) =>
        /\ result.raised /\ result.err \in {"KeyError", "ValueError", "TypeError"}
        /\ ~IsAtom(result.obj)
        /\ NEllipsis(request.args) <= 1 => result.err = "KeyError"

\* The reserved name second in a sequence of names, all else being valid.
C16_Witness ==
    /\ result.done /\ request.op = "StateAtom"
    /\ request.state = TupleSpec(<<"z1", "state">>)
    /\ NEllipsis(request.args) = 1
    /\ result.err = "KeyError"

\* C17: the forms of the state argument. With at most one placeholder and no
\* reserved name the construction succeeds; the StateAtom declares the names
\* of the argument, in its order; a name given alone, among names, or mapped
\* to "init" is Uninitialized, and a name mapped to v holds v.
C17_StateSpecForms ==
    (result.done /\ request.op = "StateAtom" /\ NEllipsis(request.args) <= 1
        /\ ~Reserved(request.state)) =>
        /\ ~result.raised /\ result.obj.cls = "StateAtom"
        /\ DictKeys(result.obj._state) = Distinct(request.state.keys)
        /\ used.op = "none" =>
              \A i \in 1..Len(request.state.keys) :
                  DictGet(result.obj._state, request.state.keys[i])
                      = SpecifiedState(request.state, i)

\* A mapping of one name to a value and of another to "init".
C17_Witness ==
    /\ result.done /\ request.op = "StateAtom" /\ used.op = "none"
    /\ request.state = DictSpec(<<"z1", "z2">>, <<1, INIT>>)
    /\ result.obj._state = <<Item("z1", Value(1)), Item("z2", Uninitialized)>>

HasStateRequest(kwargs) == DictHas(kwargs, "state") /\ DictGet(kwargs, "state").t = "spec"

\* C18: adapter dispatch. A call of an atomized function without a placeholder
\* invokes the function and gives what it gives; with one placeholder and no
\* state request, or None, it gives an Atom of that function and those
\* arguments without invoking the function; with one placeholder and a state
\* request it gives, without invoking the function, a StateAtom of that
\* function and those arguments whose states are those of the request.
C18_AdapterDispatch ==
    (result.done /\ request.op = "atomized") =>
        LET kwargs == request.kwargs IN
        /\ NEllipsis(request.args) = 0 =>
              LET r == Call(request.func, request.args, kwargs) IN
              /\ result.called /\ ~IsAtom(result.obj)
              /\ result.raised = r.raised /\ result.err = r.err
              /\ result.value = r.value
        /\ (NEllipsis(request.args) = 1 /\ ~HasStateRequest(kwargs)) =>
              /\ ~result.called /\ ~result.raised
              /\ result.obj.cls = "Atom"
              /\ result.obj.func = request.func
              /\ result.obj.args = request.args
              /\ result.obj.kwargs = kwargs
        /\ (NEllipsis(request.args) = 1 /\ HasStateRequest(kwargs)
               /\ ~Reserved(DictGet(kwargs, "state").v)) =>
              LET state == DictGet(kwargs, "state").v IN
              /\ ~result.called /\ ~result.raised
              /\ result.obj.cls = "StateAtom"
              /\ result.obj.func = request.func
              /\ result.obj.args = request.args
              /\ result.obj.kwargs = DictDel(kwargs, "state")
              /\ DictKeys(result.obj._state) = Distinct(state.keys)
              /\ used.op = "none" =>
                    \A i \in 1..Len(state.keys) :
                        DictGet(result.obj._state, state.keys[i])
                            = SpecifiedState(state, i)

\* A StateAtom made by the adapter from a mapping, then called: it starts
\* from the value of the mapping.
C18_Witness ==
    /\ request.op = "atomized" /\ request.func = "cumsum"
    /\ request.args = <<Ellipsis>>
    /\ request.kwargs = <<Item("state", StateRequest(DictSpec(<<"zi">>, <<1>>)))>>
    /\ result.obj.cls = "StateAtom"
    /\ used.op = "call" /\ ~used.raised
    /\ DictGet(used.kwargs, "zi") = Value(1)

\* C19: the members of a Sequence. After Sequence(atoms) every member is an
\* Atom, a StateAtom or a Sequence; the members are the elements in order, an
\* Atom, StateAtom or Sequence element being the same object and any other
\* element a new Atom of it with the placeholder as only argument; the
\* objects that existed are as they were.
C19_MemberTypes ==
    (result.done /\ request.op = "Sequence" /\ ~result.raised) =>
        LET items == result.obj.items
            atoms == request.atoms
            old == 1..Len(request.heap)
        IN  /\ result.obj.kind = "sequence"
            /\ Len(items) = Len(atoms)
            /\ \A id \in old : result.heap[id] = request.heap[id]
            /\ \A i \in 1..Len(items) :
                  /\ items[i].kind \in {"atom", "sequence"}
                  /\ items[i].kind = "atom" => IsAtom(result.heap[items[i].id])
                  /\ atoms[i].kind \in {"atom", "sequence"} => items[i] = atoms[i]
                  /\ atoms[i].kind = "callable" =>
                        /\ items[i].kind = "atom" /\ items[i].id \notin old
                        /\ \A j \in 1..Len(items) : items[j].id = items[i].id => j = i
                        /\ result.heap[items[i].id] =
                              [FilterInit EXCEPT !.cls = "Atom", !.func = atoms[i].func,
                                                 !.args = <<Ellipsis>>]

\* A list of a callable, a StateAtom, a Sequence and another callable.
C19_Witness ==
    /\ result.done /\ request.op = "Sequence" /\ ~result.raised
    /\ Len(request.atoms) = 4
    /\ request.atoms[1].kind = "callable" /\ request.atoms[2].kind = "atom"
    /\ request.atoms[3].kind = "sequence" /\ request.atoms[4].kind = "callable"
    /\ result.heap[result.obj.items[4].id].func = "nonzero"

----------------------------------------------------------------------------
(* Further properties of one StateAtom (specification Spec) *)

\* C23: a StateAtom per chunk. A StateAtom constructed with its states given
\* as names and used for one chunk passes the callable Uninitialized under
\* every declared name, whatever the persistent StateAtom holds by then.
C23_FreshReinitialises ==
    (renewed.op = "apply" /\ ctor.state.form \in {"str", "tuple"}) =>
        /\ renewed.x = last.x
        /\ \A i \in 1..Len(Declared) :
              DictGet(renewed.kwargs, Declared[i]) = Uninitialized

\* The persistent StateAtom received two values for the chunk and returned
\* another output than the StateAtom constructed for the chunk.
C23_Witness ==
    /\ renewed.op = "apply" /\ ~renewed.raised
    /\ ctor \in CompatibleCtors /\ Len(Declared) = 2
    /\ last.op = "apply" /\ ~last.raised
    /\ \A i \in 1..Len(Declared) : DictGet(last.kwargs, Declared[i]).t = "Value"
    /\ renewed.out # last.out

\* C30: the declared names are fixed. After any applies and resets the
\* StateAtom declares the names it declared when constructed, in that order.
C30_DeclaredNamesFixed ==
    DictKeys(atomA._state) = DictKeys(New(ctor).obj._state)

\* An apply whose callable returned fewer states than declared, after one
\* that changed the states.
C30_Witness ==
    /\ last.op = "apply" /\ ~last.raised
    /\ Len(last.ret.value) - 1 < Len(Declared)
    /\ prev.op = "apply"
    /\ atomA._state # New(ctor).obj._state

----------------------------------------------------------------------------
(* Further properties of a Sequence (specification SpecSeq) *)

\* The objects the last apply invoked.
InvokedIds ==
    {lastSeq.log[k].id : k \in {j \in 1..Len(lastSeq.log) : lastSeq.log[j].kind = "atom"}}

\* The direct members of the Sequence that are Atoms or StateAtoms.
DirectIds ==
    {pipeline.items[i].id : i \in {j \in 1..Len(pipeline.items) :
                                      pipeline.items[j].kind = "atom"}}

C22_StructureFixed ==
    [][/\ pipeline' = pipeline
       /\ Len(store') = Len(store)
       /\ \A id \in 1..Len(store) :
             /\ [store'[id] EXCEPT !._state = store[id]._state] = store[id]
             /\ store[id].cls = "Atom" => store'[id] = store[id]
             /\ NEllipsis(store'[id].args) = 1]_vars

\* A reset after applies that changed the states of a Sequence that also
\* holds a stateless Atom.
C22_Witness ==
    /\ lastSeq.op = "reset"
    /\ lastSeq.before # built
    /\ \E id \in DirectIds : store[id].cls = "Atom"
    /\ \E id \in DirectIds : store[id].cls = "StateAtom"
    /\ store = built

\* The Atoms and StateAtoms of a Sequence in the order the fold meets them.
RECURSIVE FlatItems(_)
FlatItems(items) ==
    IF items = <<>> THEN <<>>
    ELSE (IF Head(items).kind = "sequence" THEN FlatItems(Head(items).items)
          ELSE <<Head(items)>>) \o FlatItems(Tail(items))

\* Sequence([a1, ..., an]) of the same objects without nesting.
Flat(self) == SequenceObj(FlatItems(self.items), self.name)

\* C29: nesting is transparent. Every apply returns, or raises, what the
\* Sequence of the same objects without nesting gives for the same input from
\* the same states, and leaves the objects in the same states.
C29_NestingTransparent ==
    lastSeq.op = "apply" =>
        LET flat == SequenceCall(Flat(pipeline), lastSeq.x, lastSeq.before)
        IN  /\ flat.raised = lastSeq.raised /\ flat.err = lastSeq.err
            /\ flat.value = lastSeq.out
            /\ flat.heap = store

\* A second apply of a Sequence that holds a StateAtom two levels down.
C29_Witness ==
    /\ lastSeq.op = "apply" /\ ~lastSeq.raised
    /\ Flat(pipeline) # pipeline
    /\ \E id \in InvokedIds : id \notin DirectIds /\ store[id].cls = "StateAtom"
    /\ \E k \in 1..Len(lastSeq.log) : Len(lastSeq.log[k].path) = 3
    /\ lastSeq.before # built
    /\ lastSeq.out # lastSeq.x

----------------------------------------------------------------------------
(* Python ranges and slices *)

MaxSize == 3

MaxDim == 2

MaxSel == 2

MaxLinks == 2

Gave(value) == [raised |-> FALSE, err |-> "", msg |-> "", value |-> value]

Throw(err, msg) == [raised |-> TRUE, err |-> err, msg |-> msg, value |-> <<>>]

\* An int used as an index.
Index(i) == [kind |-> "int", i |-> i, start |-> None, stop |-> None, step |-> None]

\* slice(start, stop, step), each of them None or Num(n).
Slice(start, stop, step) ==
    [kind |-> "slice", i |-> 0, start |-> start, stop |-> stop, step |-> step]

\* A key that is one index, and a key that is a tuple of indices.
Single(k) == [tuple |-> FALSE, items |-> <<k>>]

Tuple(items) == [tuple |-> TRUE, items |-> items]

\* range(start, stop, step)
Range(start, stop, step) == [start |-> start, stop |-> stop, step |-> step]

\* len(range)
RangeLen(r) ==
    IF r.step > 0
    THEN (IF r.stop > r.start THEN (r.stop - r.start - 1) \div r.step + 1 ELSE 0)
    ELSE (IF r.start > r.stop THEN (r.start - r.stop - 1) \div (0 - r.step) + 1 ELSE 0)

SliceStep(s) == IF s.step = None THEN 1 ELSE s.step.v

\* slice.indices(n), for a step that is not zero.
SliceIndices(s, n) ==
    LET step == SliceStep(s)
        lower == IF step < 0 THEN 0 - 1 ELSE 0
        upper == IF step < 0 THEN n - 1 ELSE n
        Adjust(v) == IF v >= 0 THEN Min(v, upper)
                     ELSE IF v + n < lower THEN lower ELSE v + n
    IN  [start |-> IF s.start = None THEN (IF step < 0 THEN upper ELSE lower)
                   ELSE Adjust(s.start.v),
         stop |-> IF s.stop = None THEN (IF step < 0 THEN lower ELSE upper)
                  ELSE Adjust(s.stop.v),
         step |-> step]

\* range[key]: an element for an int, a range for a slice.
RangeGetItem(r, k) ==
    IF k.kind = "int"
    THEN LET n == RangeLen(r)
             i == IF k.i < 0 THEN k.i + n ELSE k.i
         IN  IF i < 0 \/ i >= n
             THEN Throw("IndexError", "range object index out of range")
             ELSE Gave([int |-> TRUE, item |-> r.start + i * r.step, range |-> r])
    ELSE IF SliceStep(k) = 0
    THEN Throw("ValueError", "slice step cannot be zero")
    ELSE LET ind == SliceIndices(k, RangeLen(r))
         IN  Gave([int |-> FALSE, item |-> 0,
                   range |-> Range(r.start + ind.start * r.step,
                                   r.start + ind.stop * r.step,
                                   r.step * ind.step)])

----------------------------------------------------------------------------
(* xdas/virtual.py: SingleSelector, SliceSelector, Selectors, Selection *)

\* SingleSelector(index)
SingleSelector(index) ==
    [cls |-> "SingleSelector", _index |-> index, _range |-> Range(0, 0, 1)]

\* SliceSelector(size)
SliceSelector(size) ==
    [cls |-> "SliceSelector", _index |-> 0, _range |-> Range(0, size, 1)]

\* SliceSelector.__getitem__(key)
SliceSelectorGetItem(self, k) ==
    LET item == RangeGetItem(self._range, k)
    IN  IF item.raised THEN item
        ELSE IF item.value.int THEN Gave(SingleSelector(item.value.item))
        ELSE Gave([self EXCEPT !._range = item.value.range])

\* SliceSelector.__len__()
SliceSelectorLen(self) == RangeLen(self._range)

\* A get_indexer that hands the stop of the range over as it is.
SliceSelectorGetIndexerPlain(self) ==
    IF SliceSelectorLen(self) = 0 THEN Slice(None, Num(0), None)
    ELSE Slice(Num(self._range.start), Num(self._range.stop), Num(self._range.step))

\* SliceSelector.get_indexer()
SliceSelectorGetIndexer(self) ==
    IF SliceSelectorLen(self) = 0 THEN Slice(None, Num(0), None)
    ELSE IF self._range.stop < 0
    THEN Slice(Num(self._range.start), None, Num(self._range.step))
    ELSE Slice(Num(self._range.start), Num(self._range.stop), Num(self._range.step))

\* SingleSelector.get_indexer()
SingleSelectorGetIndexer(self) == Index(self._index)

\* A list that answers a position past its end with the error of a list.
SelectorsGetItemPlain(self, dim) ==
    IF dim >= Len(self) THEN Throw("IndexError", "list index out of range")
    ELSE Gave(self[dim + 1])

\* Selectors.__getitem__(key), positions counted from 0.
SelectorsGetItem(self, dim) ==
    IF dim >= Len(self) THEN Throw("IndexError", "too many indices for selection")
    ELSE Gave(self[dim + 1])

\* Selection(shape)
Selection(shape) ==
    [_shape |-> shape,
     _selectors |-> [i \in 1..Len(shape) |-> SliceSelector(shape[i])],
     _whole |-> TRUE]

RECURSIVE SelectionWhile(_, _)
RECURSIVE SelectionFor(_, _, _, _)

\* while isinstance(sel._selectors[dim], SingleSelector): dim += 1
SelectionWhile(sel, dim) ==
    IF SelectorsGetItem(sel._selectors, dim).raised
    THEN SelectorsGetItem(sel._selectors, dim)
    ELSE IF SelectorsGetItem(sel._selectors, dim).value.cls = "SingleSelector"
    THEN SelectionWhile(sel, dim + 1)
    ELSE Gave(dim)

\* sel._selectors[dim] = item; dim += 1, and the rest of the loop.
SelectionStore(sel, key, j, dim, item) ==
    IF item.raised THEN item
    ELSE SelectionFor([sel EXCEPT !._selectors[dim + 1] = item.value], key, j + 1,
                      dim + 1)

\* The body of the loop for key[j], `at` being where the while loop stopped.
SelectionBody(sel, key, j, at) ==
    IF at.raised THEN at
    ELSE SelectionStore(sel, key, j, at.value,
                        SliceSelectorGetItem(sel._selectors[at.value + 1], key[j]))

\* for k in key, from the j-th index of the key on.
SelectionFor(sel, key, j, dim) ==
    IF j > Len(key) THEN Gave(sel)
    ELSE SelectionBody(sel, key, j, SelectionWhile(sel, dim))

\* Selection.__getitem__(key): the new Selection, or the error.
SelectionGetItem(self, key) ==
    SelectionFor([self EXCEPT !._whole = FALSE], key.items, 1, 0)

\* The selectors of a Selection that are not SingleSelectors.
Remaining(self) ==
    LET NotSingle(s) == s.cls # "SingleSelector"
    IN  SelectSeq(self._selectors, NotSingle)

\* Selection.shape
SelectionShape(self) ==
    [i \in 1..Len(Remaining(self)) |-> SliceSelectorLen(Remaining(self)[i])]

\* Selection.get_indexer()
SelectionGetIndexer(self) ==
    [i \in 1..Len(self._selectors) |->
        IF self._selectors[i].cls = "SingleSelector"
        THEN SingleSelectorGetIndexer(self._selectors[i])
        ELSE SliceSelectorGetIndexer(self._selectors[i])]

----------------------------------------------------------------------------
(* An array indexed eagerly: along each axis, the positions of the original *)
(* array that are left, or the one position an int picked.                  *)

Picked(index) == [single |-> TRUE, index |-> index, idx |-> <<>>]

Left(idx) == [single |-> FALSE, index |-> 0, idx |-> idx]

\* np.arange(...).reshape(shape)
Array(shape) == [i \in 1..Len(shape) |-> Left([j \in 1..shape[i] |-> j - 1])]

\* One index applied along one axis.
AxisGetItem(axis, k) ==
    IF k.kind = "int"
    THEN LET n == Len(axis.idx)
             i == IF k.i < 0 THEN k.i + n ELSE k.i
         IN  IF i < 0 \/ i >= n
             THEN Throw("IndexError", "index out of bounds")
             ELSE Gave(Picked(axis.idx[i + 1]))
    ELSE IF SliceStep(k) = 0
    THEN Throw("ValueError", "slice step cannot be zero")
    ELSE LET ind == SliceIndices(k, Len(axis.idx))
             n == RangeLen(Range(ind.start, ind.stop, ind.step))
         IN  Gave(Left([m \in 1..n |-> axis.idx[ind.start + (m - 1) * ind.step + 1]]))

\* The axes of an array an int has not picked from, by position.
Open(axes) ==
    LET IsLeft(i) == ~axes[i].single
    IN  SelectSeq([i \in 1..Len(axes) |-> i], IsLeft)

\* arr[key]: the j-th index of the key goes to the j-th axis that is left.
ArrayGetItem(axes, key) ==
    IF Len(key) > Len(Open(axes))
    THEN Throw("IndexError", "too many indices for array")
    ELSE IF \E j \in 1..Len(key) : AxisGetItem(axes[Open(axes)[j]], key[j]).raised
    THEN Throw("IndexError", "invalid index")
    ELSE Gave([i \in 1..Len(axes) |->
                  IF \E j \in 1..Len(key) : Open(axes)[j] = i
                  THEN AxisGetItem(axes[i],
                                   key[CHOOSE j \in 1..Len(key) : Open(axes)[j] = i]).value
                  ELSE axes[i]])

\* arr.shape
ArrayShape(axes) == [j \in 1..Len(Open(axes)) |-> Len(axes[Open(axes)[j]].idx)]

\* arr[indexer] for the tuple get_indexer() gives, on an array of the shape.
TakeIndexer(indexer, shape) == ArrayGetItem(Array(shape), indexer)

----------------------------------------------------------------------------
(* xdas/virtual.py: DataLayout *)

\* An h5py.VirtualSource, and a DataSource over it.
VirtualSource(id) == [cls |-> "VirtualSource", id |-> id]

DataSource(id) == [cls |-> "DataSource", id |-> id]

\* DataLayout(shape, dtype): the h5py.VirtualLayout it holds is one object,
\* which every copy of the DataLayout shares.
DataLayout(shape) == [_layout |-> "VirtualLayout", _sel |-> Selection(shape)]

\* A __getitem__ that sets the selection of self.
DataLayoutGetItemInPlace(self, key) ==
    LET r == SelectionGetItem(self._sel, key)
    IN  IF r.raised THEN [raised |-> TRUE, err |-> r.err, self |-> self, value |-> self]
        ELSE [raised |-> FALSE, err |-> "", self |-> [self EXCEPT !._sel = r.value],
              value |-> [self EXCEPT !._sel = r.value]]

\* DataLayout.__getitem__(key): self after the call, and the DataLayout returned.
DataLayoutGetItem(self, key) ==
    LET r == SelectionGetItem(self._sel, key)
    IN  IF r.raised THEN [raised |-> TRUE, err |-> r.err, self |-> self, value |-> self]
        ELSE [raised |-> FALSE, err |-> "", self |-> self,
              value |-> [self EXCEPT !._sel = r.value]]

\* DataLayout.__setitem__(key, value): the error, or what the virtual layout
\* holds after it.
DataLayoutSetItem(self, key, value, content) ==
    IF ~self._sel._whole
    THEN [raised |-> TRUE, err |-> "NotImplementedError", content |-> content]
    ELSE [raised |-> FALSE, err |-> "",
          content |-> Append(content,
                             [key |-> key,
                              value |-> IF value.cls = "DataSource"
                                        THEN VirtualSource(value.id) ELSE value])]

----------------------------------------------------------------------------
(* Successive selections on one Selection (specification SpecSel) *)

\* The shapes of up to MaxDim axes, each of them empty or of MaxSize elements.
Shapes == UNION {[1..n -> {0, MaxSize}] : n \in 0..MaxDim}

\* The slices, with bounds from either end and steps in both directions, and
\* the slice of step zero.
Slices ==
    LET Ends == {None, Num(0 - 1), Num(1)}
        Steps == {None, Num(0 - 2), Num(0 - 1), Num(2)}
    IN  {Slice(a, b, c) : a \in Ends, b \in Ends, c \in Steps}
            \cup {Slice(None, None, Num(0))}

\* The indices that make the tuple keys.
Few == {Index(0 - 1), Slice(None, None, Num(0)), Slice(Num(1), None, Num(0 - 1))}

\* The keys: an int, in range or out of range, a slice, or a tuple of up to
\* MaxDim indices.
Keys ==
    {Single(k) : k \in {Index(i) : i \in (0 - MaxSize - 1)..MaxSize} \cup Slices}
        \cup {Tuple(t) : t \in UNION {[1..n -> Few] : n \in 0..MaxDim}}

NoSel ==
    [op |-> "none", n |-> 0, ndim |-> 0, sound |-> TRUE, raised |-> FALSE, err |-> "",
     msg |-> "", valid |-> TRUE]

\* The first n indices of a key.
Leading(key, n) == [tuple |-> key.tuple, items |-> SubSeq(key.items, 1, n)]

\* sel = sel[key] next to arr = arr[key]
Select(key) ==
    /\ nSel < MaxSel
    /\ LET r == SelectionGetItem(selection, key)
           e == ArrayGetItem(eager.axes, key.items)
           ndim == Len(SelectionShape(selection))
       IN  /\ selection' = IF r.raised THEN selection ELSE r.value
           /\ eager' = IF e.raised THEN [eager EXCEPT !.ok = FALSE]
                       ELSE [eager EXCEPT !.axes = e.value]
           /\ lastSel' = [op |-> "getitem", n |-> Len(key.items), ndim |-> ndim,
                          sound |-> ~SelectionGetItem(
                                        selection,
                                        Leading(key, Min(ndim, Len(key.items)))).raised,
                          raised |-> r.raised, err |-> r.err, msg |-> r.msg,
                          valid |-> ~e.raised]
    /\ nSel' = nSel + 1
    /\ UNCHANGED <<layout, sliced, linked, lastSet, ctor, atomA, histVars, twinVars,
                   seqVars, buildVars, zmqVars, derVars>>

InitSel ==
    /\ IdleAtom /\ IdleSeq /\ IdleBuild /\ IdleLayout /\ IdleZmq /\ IdleDerived
    /\ \E shape \in Shapes :
        /\ selection = Selection(shape)
        /\ eager = [ok |-> TRUE, axes |-> Array(shape)]
    /\ lastSel = NoSel
    /\ nSel = 0

NextSel == \E key \in Keys : Select(key)

SpecSel == InitSel /\ [][NextSel]_vars

----------------------------------------------------------------------------
(* Slicing of and assignment to a DataLayout (specification SpecLayout) *)

\* The keys a DataLayout is sliced with: the full slice, the empty tuple, and
\* the indices of the tuple keys.
LayoutKeys ==
    {Single(Slice(None, None, None)), Tuple(<<>>)} \cup {Single(k) : k \in Few}

NoSet ==
    [op |-> "none", target |-> "", raised |-> FALSE, err |-> "", was |-> <<>>,
     value |-> VirtualSource(0), whole |-> TRUE, since |-> FALSE]

\* sliced = layout[key] the first time, sliced = sliced[key] from then on
GetItem(key) ==
    /\ nSel < MaxSel
    /\ LET r == DataLayoutGetItem(IF sliced.made THEN sliced.obj ELSE layout, key)
       IN  /\ layout' = IF sliced.made THEN layout ELSE r.self
           /\ sliced' = IF r.raised
                         THEN [sliced EXCEPT !.obj = IF sliced.made THEN r.self ELSE @]
                         ELSE [made |-> TRUE, obj |-> r.value]
           /\ lastSet' = [lastSet EXCEPT !.op = "getitem", !.target = "",
                                         !.raised = r.raised, !.err = r.err,
                                         !.was = linked]
    /\ nSel' = nSel + 1
    /\ UNCHANGED <<linked, selection, eager, lastSel, ctor, atomA, histVars, twinVars,
                   seqVars, buildVars, zmqVars, derVars>>

\* layout[...] = value, or sliced[...] = value
SetItem(target, value) ==
    /\ Len(linked) < MaxLinks
    /\ target = "sliced" => sliced.made
    /\ LET self == IF target = "sliced" THEN sliced.obj ELSE layout
           r == DataLayoutSetItem(self, Ellipsis, value, linked)
       IN  /\ linked' = r.content
           /\ lastSet' = [op |-> "setitem", target |-> target, raised |-> r.raised,
                          err |-> r.err, was |-> linked, value |-> value,
                          whole |-> self._sel._whole,
                          since |-> lastSet.since
                                      \/ (target = "layout" /\ sliced.made /\ ~r.raised)]
    /\ UNCHANGED <<layout, sliced, nSel, selection, eager, lastSel, ctor, atomA,
                   histVars, twinVars, seqVars, buildVars, zmqVars, derVars>>

InitLayout ==
    /\ IdleAtom /\ IdleSeq /\ IdleBuild /\ IdleSelection /\ IdleZmq /\ IdleDerived
    /\ \E shape \in Shapes :
        /\ layout = DataLayout(shape)
        /\ sliced = [made |-> FALSE, obj |-> DataLayout(shape)]
    /\ linked = <<>>
    /\ lastSet = NoSet
    /\ nSel = 0

NextLayout ==
    \/ \E key \in LayoutKeys : GetItem(key)
    \/ \E target \in {"layout", "sliced"}, value \in {DataSource(1), VirtualSource(2)} :
          SetItem(target, value)

SpecLayout == InitLayout /\ [][NextLayout]_vars

----------------------------------------------------------------------------
(* Properties of a DataLayout (specification SpecLayout) *)

\* C27: an assignment to a DataLayout that slicing gave raises
\* NotImplementedError and leaves the virtual layout as it was, whatever the
\* key of the slicing; an assignment to the DataLayout as constructed is
\* accepted and links the source, whether or not it was sliced before.
C27_SlicedRefusesAssignment ==
    lastSet.op = "setitem" =>
        /\ lastSet.target = "sliced" =>
              /\ lastSet.raised /\ lastSet.err = "NotImplementedError"
              /\ linked = lastSet.was
        /\ lastSet.target = "layout" =>
              /\ ~lastSet.raised
              /\ Len(linked) = Len(lastSet.was) + 1
              /\ linked[Len(linked)].value.cls = "VirtualSource"
              /\ linked[Len(linked)].value.id = lastSet.value.id

\* A DataLayout sliced with the full slice refused a DataSource after the
\* DataLayout it was sliced from had accepted one.
C27_Witness ==
    /\ lastSet.op = "setitem" /\ lastSet.target = "sliced" /\ lastSet.raised
    /\ lastSet.since
    /\ lastSet.value.cls = "DataSource"
    /\ Len(linked) = 1
    /\ sliced.obj._sel._selectors = layout._sel._selectors
    /\ Len(layout._sel._shape) = 2

----------------------------------------------------------------------------
(* Properties of a Selection (specification SpecSel) *)

\* C24: lazy selection equals eager indexing. While every key was valid on
\* the array, no selection raised, indexing the array once with get_indexer()
\* gives the positions the successive eager indexings left along every axis
\* and the positions their ints picked, and Selection.shape is the shape of
\* the eager result.
C24_LazyEqualsEager ==
    eager.ok =>
        /\ ~lastSel.raised
        /\ ~TakeIndexer(SelectionGetIndexer(selection), selection._shape).raised
        /\ TakeIndexer(SelectionGetIndexer(selection), selection._shape).value
              = eager.axes
        /\ SelectionShape(selection) = ArrayShape(eager.axes)

\* Two successive valid selections that leave, along one axis, a reversed
\* range that reaches position 0 with a step of 2 and, along another, one
\* picked position.
C24_Witness ==
    /\ eager.ok /\ nSel = 2 /\ lastSel.op = "getitem"
    /\ \E i \in 1..Len(selection._selectors) :
          /\ selection._selectors[i].cls = "SliceSelector"
          /\ selection._selectors[i]._range.step = 0 - 2
          /\ selection._selectors[i]._range.stop < 0
          /\ SliceSelectorLen(selection._selectors[i]) = 2
    /\ \E i \in 1..Len(selection._selectors) :
          /\ selection._selectors[i].cls = "SingleSelector"
          /\ selection._selectors[i]._index > 0

\* C28 as stated: a key with more indices than the Selection has dimensions
\* left raises IndexError, too many indices.
C28_TooManyIndices ==
    (lastSel.op = "getitem" /\ lastSel.n > lastSel.ndim) =>
        /\ lastSel.raised
        /\ lastSel.err = "IndexError"
        /\ lastSel.msg = "too many indices for selection"

\* C28, amended: a key with more indices than the Selection has dimensions
\* left never gives a Selection. It raises IndexError, too many indices, when
\* the indices that fall on the dimensions left are valid there; otherwise it
\* raises the error of the first of them that is not, the IndexError of an
\* int out of range or the ValueError of a slice step of zero.
C28_TooManyOrInvalid ==
    (lastSel.op = "getitem" /\ lastSel.n > lastSel.ndim) =>
        /\ lastSel.raised
        /\ lastSel.sound =>
              /\ lastSel.err = "IndexError"
              /\ lastSel.msg = "too many indices for selection"
        /\ ~lastSel.sound =>
              \/ /\ lastSel.err = "IndexError"
                 /\ lastSel.msg = "range object index out of range"
              \/ /\ lastSel.err = "ValueError"
                 /\ lastSel.msg = "slice step cannot be zero"

\* One index too many after a selection that picked a position: the second
\* selection raised and left the Selection as the first one made it.
C28_Witness ==
    /\ lastSel.op = "getitem" /\ nSel = 2
    /\ lastSel.n = 2 /\ lastSel.ndim = 1 /\ lastSel.sound
    /\ lastSel.raised /\ lastSel.msg = "too many indices for selection"
    /\ Len(selection._shape) = 2
    /\ ~selection._whole

----------------------------------------------------------------------------
(* Selections held by reference: the objects, and the lists of selectors    *)
(* their _selectors attributes refer to.  A tuple, a range and a selector   *)
(* are never written after they are made and are kept as values.            *)

\* The Selection a reference stands for, its list read through the reference.
View(mem, ref) ==
    [_shape |-> mem.objs[ref]._shape,
     _selectors |-> mem.lists[mem.objs[ref]._selectors],
     _whole |-> mem.objs[ref]._whole]

\* Selection(shape), as the only object in memory
Allocated(shape) ==
    [objs |-> <<[_shape |-> shape, _selectors |-> 1, _whole |-> TRUE]>>,
     lists |-> <<Selection(shape)._selectors>>]

\* copy(self): a new object whose attributes refer to what the receiver's do.
Copy(mem, ref) ==
    [mem |-> [mem EXCEPT !.objs = Append(@, mem.objs[ref])],
     ref |-> Len(mem.objs) + 1]

\* deepcopy(self): a new object with a new list of the same selectors.
Deepcopy(mem, ref) ==
    [mem |-> [objs |-> Append(mem.objs, [mem.objs[ref] EXCEPT
                                            !._selectors = Len(mem.lists) + 1]),
              lists |-> Append(mem.lists, mem.lists[mem.objs[ref]._selectors])],
     ref |-> Len(mem.objs) + 1]

\* sel._whole = False and the loop over the key, on the copy c: the writes
\* go to the object of the copy and to the list it refers to.  The copy a
\* call that raised leaves behind is out of reach.
SelectionLoop(c, key) ==
    LET r == SelectionGetItem(View(c.mem, c.ref), key)
    IN  IF r.raised
        THEN [raised |-> TRUE, err |-> r.err, msg |-> r.msg, ref |-> 0,
              mem |-> [c.mem EXCEPT !.objs[c.ref]._whole = FALSE]]
        ELSE [raised |-> FALSE, err |-> "", msg |-> "", ref |-> c.ref,
              mem |-> [c.mem EXCEPT
                          !.objs[c.ref]._whole = FALSE,
                          !.lists[c.mem.objs[c.ref]._selectors] = r.value._selectors]]

\* A Selection.__getitem__ that works on a shallow copy of the receiver.
SelectionGetItemShallow(mem, ref, key) == SelectionLoop(Copy(mem, ref), key)

\* Selection.__getitem__(key) on the object `ref`: the memory after the call
\* and the reference returned, or the error.
SelectionGetItemAt(mem, ref, key) == SelectionLoop(Deepcopy(mem, ref), key)

----------------------------------------------------------------------------
(* Selections derived from Selections the caller holds (specification       *)
(* SpecDerive)                                                              *)

\* The keys of the derivations: one index, the full slice, which selects
\* everything, or a tuple of two indices.
DeriveKeys ==
    {Single(k) : k \in Few \cup {Index(0), Slice(None, None, None)}}
        \cup {Tuple(<<a, b>>) : a \in Few, b \in Few}

NoGet ==
    [op |-> "none", self |-> 0, raised |-> FALSE, ref |-> 0, was |-> <<>>]

\* new = held[key], for any Selection the caller holds
Derive(ref, key) ==
    /\ Len(memory.objs) <= MaxSel
    /\ ref \in held
    /\ LET r == SelectionGetItemAt(memory, ref, key)
       IN  /\ memory' = r.mem
           /\ held' = IF r.raised THEN held ELSE held \cup {r.ref}
           /\ lastGet' = [op |-> "getitem", self |-> ref, raised |-> r.raised,
                          ref |-> r.ref,
                          was |-> [i \in 1..Len(memory.objs) |-> View(memory, i)]]
    /\ UNCHANGED <<ctor, atomA, histVars, twinVars, seqVars, buildVars, selVars,
                   zmqVars>>

InitDerive ==
    /\ IdleAtom /\ IdleSeq /\ IdleBuild /\ IdleSel /\ IdleZmq
    /\ \E shape \in Shapes : memory = Allocated(shape)
    /\ held = {1}
    /\ lastGet = NoGet

NextDerive == \E ref \in 1..(MaxSel + 1), key \in DeriveKeys : Derive(ref, key)

SpecDerive == InitDerive /\ [][NextDerive]_vars

----------------------------------------------------------------------------
(* Properties of Selections held by reference (specification SpecDerive) *)

\* C32: Selection.__getitem__ is non-mutating. Whether it returns or raises,
\* the receiver and every other Selection made before the call keep their
\* selectors, their shape and their whole-flag; what it returns is a new
\* object, not whole, whose list of selectors no Selection the caller holds
\* refers to.
C32_GetItemNonMutating ==
    lastGet.op = "getitem" =>
        /\ \A i \in 1..Len(lastGet.was) :
              /\ View(memory, i) = lastGet.was[i]
              /\ SelectionShape(View(memory, i)) = SelectionShape(lastGet.was[i])
        /\ ~lastGet.raised =>
              /\ lastGet.ref > Len(lastGet.was)
              /\ ~View(memory, lastGet.ref)._whole
              /\ \A i \in held \ {lastGet.ref} :
                    memory.objs[i]._selectors # memory.objs[lastGet.ref]._selectors

\* Two selections derived from the Selection as constructed, which is still
\* whole: they differ from each other and from it, in selectors and in shape.
C32_Witness ==
    /\ lastGet.op = "getitem" /\ ~lastGet.raised
    /\ lastGet.self = 1 /\ lastGet.ref = 3 /\ held = {1, 2, 3}
    /\ View(memory, 1)._whole
    /\ View(memory, 1) = Selection(memory.objs[1]._shape)
    /\ View(memory, 2)._selectors # View(memory, 1)._selectors
    /\ View(memory, 3)._selectors # View(memory, 1)._selectors
    /\ View(memory, 3)._selectors # View(memory, 2)._selectors
    /\ SelectionShape(View(memory, 2)) # SelectionShape(View(memory, 3))
    /\ SelectionShape(View(memory, 2)) # SelectionShape(View(memory, 1))

----------------------------------------------------------------------------
(* xdas/io/asn.py: ZMQPublisher and ZMQSubscriber *)

MaxSubmit == 3

\* The characters of the text of a header other than those of its values.
JsonBase == 179

\* The bytes of the time stamp at the head of a data message.
StampBytes == 8

\* A DataArray: its dims and shape in the order given, its dtype, its sampling
\* intervals and its first time.
Array2D(dims, shape, dtype, dx, dt, t0) ==
    [dims |-> dims, shape |-> shape, dtype |-> dtype, dx |-> dx, dt |-> dt, t0 |-> t0]

\* da.transpose("time", "distance")
Transpose(da) ==
    IF da.dims = <<"time", "distance">> THEN da
    ELSE [da EXCEPT !.dims = <<"time", "distance">>,
                    !.shape = <<da.shape[2], da.shape[1]>>]

\* dtype.itemsize
ItemSize(dtype) == IF dtype = "float32" THEN 4 ELSE IF dtype = "int16" THEN 2 ELSE 8

\* ZMQPublisher._get_header(da)
GetHeader(da) ==
    [bytesPerPackage |-> ItemSize(da.dtype) * Transpose(da).shape[2],
     nPackagesPerMessage |-> Transpose(da).shape[1],
     nChannels |-> Transpose(da).shape[2],
     dataType |-> IF da.dtype = "float32" THEN "float" ELSE "short",
     dx |-> da.dx, dt |-> da.dt, dtUnit |-> "s", dxUnit |-> "m",
     roiStart |-> 0, roiEnd |-> Transpose(da).shape[2] - 1, roiDec |-> 1]

\* len(str(n)) of an int that is not negative, and of a float without fraction.
Digits(n) == IF n < 10 THEN 1 ELSE IF n < 100 THEN 2 ELSE IF n < 1000 THEN 3 ELSE 4

\* len(json.dumps(header).encode("utf-8"))
JsonLen(header) ==
    JsonBase + Digits(header.bytesPerPackage) + Digits(header.nPackagesPerMessage)
        + Digits(header.nChannels) + (IF header.dataType = "float" THEN 5 ELSE 5)
        + (Digits(header.dx) + 2) + (Digits(header.dt) + 2) + Digits(header.roiEnd)

NoArray == Array2D(<<"time", "distance">>, <<0, 0>>, "", 0, 0, 0)

\* json.dumps(header).encode("utf-8"): the bytes of a header message.
HeaderMessage(header) ==
    [kind |-> "header", len |-> JsonLen(header), header |-> header, da |-> NoArray]

\* t0.tobytes() + data.tobytes(): the bytes of a data message.
DataMessage(da) ==
    [kind |-> "data",
     len |-> StampBytes
               + ItemSize(da.dtype) * Transpose(da).shape[1] * Transpose(da).shape[2],
     header |-> GetHeader(da), da |-> Transpose(da)]

NoMessage == [kind |-> "none", len |-> 0, header |-> GetHeader(NoArray), da |-> NoArray]

\* ZMQPublisher(address): no header, no welcome message.
ZMQPublisher == [_header |-> NoMessage, welcome |-> NoMessage]

\* self.header = header
SetHeader(self, header) ==
    [_header |-> HeaderMessage(header), welcome |-> HeaderMessage(header)]

\* A _send that sends the header it holds when the array has another one.
ZMQPublisherSendStale(self, da) ==
    LET first == IF self._header.kind = "none" THEN SetHeader(self, GetHeader(da))
                 ELSE self
    IN  [self |-> first,
         sent |-> (IF GetHeader(da) # first._header.header
                   THEN <<HeaderMessage(first._header.header)>> ELSE <<>>)
                      \o <<DataMessage(da)>>]

\* ZMQPublisher._send(da): the publisher after it, and the messages it sent.
ZMQPublisherSend(self, da) ==
    LET first == IF self._header.kind = "none" THEN SetHeader(self, GetHeader(da))
                 ELSE self
        second == IF GetHeader(da) # first._header.header
                  THEN SetHeader(first, GetHeader(da)) ELSE first
    IN  [self |-> second,
         sent |-> (IF GetHeader(da) # first._header.header
                   THEN <<HeaderMessage(second._header.header)>> ELSE <<>>)
                      \o <<DataMessage(da)>>]

\* float_to_timedelta(value, unit), in nanoseconds
float_to_timedelta(value, unit) ==
    value * (IF unit = "ns" THEN 1 ELSE IF unit = "us" THEN 1000
             ELSE IF unit = "ms" THEN 1000000 ELSE 1000000000)

\* ZMQSubscriber._update_header(message): the bytes of a data message are not
\* the text of a header, and json.loads raises on them.
UpdateHeader(self, message) ==
    IF message.kind # "header"
    THEN [raised |-> TRUE, err |-> "ValueError", self |-> self]
    ELSE [raised |-> FALSE, err |-> "",
          self |-> [packet_size |-> StampBytes + message.header.bytesPerPackage
                                                   * message.header.nPackagesPerMessage,
                    shape |-> <<message.header.nPackagesPerMessage,
                                message.header.nChannels>>,
                    dtype |-> IF message.header.dataType = "float" THEN "float32"
                              ELSE "int16",
                    distance |-> [tie_indices |-> <<0, message.header.nChannels - 1>>,
                                  tie_values |-> <<message.header.roiStart
                                                     * message.header.dx,
                                                   message.header.roiEnd
                                                     * message.header.dx>>],
                    delta |-> float_to_timedelta(message.header.dt,
                                                 message.header.dtUnit)]]

\* ZMQSubscriber._is_packet(message)
IsPacket(self, message) == message.len = self.packet_size

\* ZMQSubscriber._unpack(message): the DataArray made of the bytes of the
\* message, or the error of a reshape of the wrong number of samples.
Unpack(self, message) ==
    IF message.len - StampBytes # ItemSize(self.dtype) * self.shape[1] * self.shape[2]
    THEN [raised |-> TRUE, err |-> "ValueError", value |-> NoMessage,
          shape |-> self.shape, dtype |-> self.dtype, distance |-> self.distance,
          delta |-> self.delta]
    ELSE [raised |-> FALSE, err |-> "", value |-> message,
          shape |-> self.shape, dtype |-> self.dtype, distance |-> self.distance,
          delta |-> self.delta]

RECURSIVE SubscriberNext(_, _, _)

\* The rest of __next__ after _update_header(message) gave `updated`.
SubscriberNextAfter(self, queue, parsed, updated) ==
    IF updated.raised
    THEN [status |-> "raised", err |-> updated.err, self |-> self, queue |-> Tail(queue),
          parsed |-> parsed, unpacked |-> Unpack(self, NoMessage)]
    ELSE SubscriberNext(updated.self, Tail(queue), parsed)

\* ZMQSubscriber.__next__(): the subscriber after it, the messages left, the
\* messages it took for headers and what it unpacked; it waits when the
\* messages run out.
SubscriberNext(self, queue, parsed) ==
    IF queue = <<>>
    THEN [status |-> "waiting", err |-> "", self |-> self, queue |-> queue,
          parsed |-> parsed, unpacked |-> Unpack(self, NoMessage)]
    ELSE IF ~IsPacket(self, Head(queue))
    THEN SubscriberNextAfter(self, queue, Append(parsed, Head(queue)),
                             UpdateHeader(self, Head(queue)))
    ELSE [status |-> IF Unpack(self, Head(queue)).raised THEN "raised" ELSE "returned",
          err |-> Unpack(self, Head(queue)).err, self |-> self, queue |-> Tail(queue),
          parsed |-> parsed, unpacked |-> Unpack(self, Head(queue))]

----------------------------------------------------------------------------
(* A publisher and a subscriber of it (specification SpecZmq) *)

\* The arrays submitted: one packet of 48 float32 channels, the same with its
\* dims the other way round and a later first time, ten packets of 100
\* channels, and one packet of 96 int16 channels.
Arrays ==
    {Array2D(<<"time", "distance">>, <<1, 48>>, "float32", 1, 1, 0),
     Array2D(<<"distance", "time">>, <<48, 1>>, "float32", 1, 1, 1),
     Array2D(<<"time", "distance">>, <<10, 100>>, "float32", 1, 1, 0),
     Array2D(<<"time", "distance">>, <<1, 96>>, "int16", 1, 2, 0)}

NoSubmit == [op |-> "none", da |-> NoArray, had |-> NoMessage, sent |-> <<>>, was |-> <<>>]

NoNext ==
    [op |-> "none", raised |-> FALSE, err |-> "", parsed |-> <<>>,
     unpacked |-> Unpack(UpdateHeader(<<>>, HeaderMessage(GetHeader(NoArray))).self,
                         NoMessage),
     latest |-> NoMessage]

NotConnected ==
    [connected |-> FALSE,
     obj |-> UpdateHeader(<<>>, HeaderMessage(GetHeader(NoArray))).self]

\* The last header message among the messages, or `latest` when there is none.
RECURSIVE LatestHeader(_, _)
LatestHeader(messages, latest) ==
    IF messages = <<>> THEN latest
    ELSE LatestHeader(Tail(messages),
                      IF Head(messages).kind = "header" THEN Head(messages) ELSE latest)

\* publisher.submit(da), or publisher.write(da)
Submit(da) ==
    /\ Cardinality({i \in 1..Len(wire) : wire[i].kind = "data"}) < MaxSubmit
    /\ publisher' = ZMQPublisherSend(publisher, da).self
    /\ wire' = wire \o ZMQPublisherSend(publisher, da).sent
    /\ inbox' = IF subscriber.connected
                THEN inbox \o ZMQPublisherSend(publisher, da).sent ELSE inbox
    /\ lastSubmit' = [op |-> "submit", da |-> da, had |-> publisher._header,
                      sent |-> ZMQPublisherSend(publisher, da).sent, was |-> wire]
    /\ UNCHANGED <<subscriber, lastNext, ctor, atomA, histVars, twinVars, seqVars,
                   buildVars, selVars, derVars>>

\* ZMQSubscriber(address), once the publisher has a welcome message: the
\* welcome message is the first message the subscriber gets.
Connect ==
    /\ ~subscriber.connected
    /\ publisher.welcome.kind = "header"
    /\ subscriber' = [connected |-> TRUE,
                      obj |-> UpdateHeader(subscriber.obj, publisher.welcome).self]
    /\ inbox' = <<>>
    /\ lastNext' = [NoNext EXCEPT !.op = "init", !.parsed = <<publisher.welcome>>,
                                  !.latest = publisher.welcome]
    /\ UNCHANGED <<publisher, wire, lastSubmit, ctor, atomA, histVars, twinVars,
                   seqVars, buildVars, selVars, derVars>>

\* next(subscriber), when the messages delivered let it return or raise
Receive ==
    /\ subscriber.connected
    /\ SubscriberNext(subscriber.obj, inbox, <<>>).status # "waiting"
    /\ LET r == SubscriberNext(subscriber.obj, inbox, <<>>)
           taken == SubSeq(inbox, 1, Len(inbox) - Len(r.queue))
       IN  /\ subscriber' = [subscriber EXCEPT !.obj = r.self]
           /\ inbox' = r.queue
           /\ lastNext' = [op |-> "next", raised |-> r.status = "raised", err |-> r.err,
                           parsed |-> r.parsed, unpacked |-> r.unpacked,
                           latest |-> LatestHeader(
                                          IF r.status = "returned"
                                          THEN SubSeq(taken, 1, Len(taken) - 1)
                                          ELSE taken,
                                          lastNext.latest)]
    /\ UNCHANGED <<publisher, wire, lastSubmit, ctor, atomA, histVars, twinVars,
                   seqVars, buildVars, selVars, derVars>>

InitZmq ==
    /\ IdleAtom /\ IdleSeq /\ IdleBuild /\ IdleSel /\ IdleDerived
    /\ publisher = ZMQPublisher
    /\ wire = <<>>
    /\ subscriber = NotConnected
    /\ inbox = <<>>
    /\ lastSubmit = NoSubmit
    /\ lastNext = NoNext

NextZmq ==
    \/ \E da \in Arrays : Submit(da)
    \/ Connect
    \/ Receive

SpecZmq == InitZmq /\ [][NextZmq]_vars

----------------------------------------------------------------------------
(* Properties of the publisher and the subscriber (specification SpecZmq) *)

\* The header message that describes the data message at position i of the
\* messages sent: the last header message before it, or, when there is none,
\* the header of the first array submitted, which is the first welcome message.
Describing(i) ==
    LatestHeader(SubSeq(wire, 1, i - 1), HeaderMessage(wire[1].header))

\* C25: the header protocol of the publisher. After every submit the header
\* held and the welcome message are those of the array submitted; the submit
\* sent one data message, that of the array, and it sent last; a header
\* message, that of the array, went just before it exactly when a header was
\* held that differed; and every data message sent so far is described by the
\* last header message before it, or by the first welcome message.
C25_HeaderProtocol ==
    lastSubmit.op = "submit" =>
        /\ publisher._header = HeaderMessage(GetHeader(lastSubmit.da))
        /\ publisher.welcome = HeaderMessage(GetHeader(lastSubmit.da))
        /\ wire = lastSubmit.was \o lastSubmit.sent
        /\ lastSubmit.sent[Len(lastSubmit.sent)] = DataMessage(lastSubmit.da)
        /\ IF lastSubmit.had.kind = "header"
              /\ lastSubmit.had.header # GetHeader(lastSubmit.da)
           THEN /\ Len(lastSubmit.sent) = 2
                /\ lastSubmit.sent[1] = HeaderMessage(GetHeader(lastSubmit.da))
           ELSE Len(lastSubmit.sent) = 1
        /\ \A i \in 1..Len(wire) :
              wire[i].kind = "data" => Describing(i).header = wire[i].header

\* A third submit whose array has the header of the first one after a second
\* one with another header: two header messages among five messages.
C25_Witness ==
    /\ lastSubmit.op = "submit"
    /\ Len(wire) = 5
    /\ wire[1].kind = "data" /\ wire[2].kind = "header" /\ wire[4].kind = "header"
    /\ wire[5].header = wire[1].header
    /\ wire[5].da # wire[1].da
    /\ lastSubmit.da.dims = <<"distance", "time">>

\* C26: the decoding of the subscriber. Every message __next__ takes for a
\* header is a header message, and what it returns is made of a data message
\* with the shape, the dtype, the distances and the sampling interval of the
\* last header message received before it.
C26_DecodesDataWithLatestHeader ==
    lastNext.op = "next" =>
        /\ \A i \in 1..Len(lastNext.parsed) : lastNext.parsed[i].kind = "header"
        /\ ~lastNext.raised =>
              /\ lastNext.unpacked.value.kind = "data"
              /\ lastNext.unpacked.shape = UpdateHeader(<<>>, lastNext.latest).self.shape
              /\ lastNext.unpacked.dtype = UpdateHeader(<<>>, lastNext.latest).self.dtype
              /\ lastNext.unpacked.distance
                    = UpdateHeader(<<>>, lastNext.latest).self.distance
              /\ lastNext.unpacked.delta = UpdateHeader(<<>>, lastNext.latest).self.delta

====
